---- MODULE Spec2Model ----
(***************************************************************************)
(* The CITAM dashboard (citamjs): the central Vuex store and its two       *)
(* asynchronous actions, the data service's summary cache, the Visualizer  *)
(* component (PlotVisualization.vue) and the Map2D animation engine.       *)
(*                                                                         *)
(* One action of the model is one task of the browser's event loop: a      *)
(* user event, a component hook or the arrival of an HTTP response,        *)
(* together with the promise reactions (microtasks) it triggers.           *)
(*                                                                         *)
(* JavaScript values: a nullable number, array or object is <<>> for null  *)
(* and <<v>> for the value v; a nullable string is the string or "null".   *)
(***************************************************************************)
EXTENDS Integers, Sequences, FiniteSets, TLC

\* ---------------------------------------------------------------- bounds
\* Largest TotalTimesteps a summary reports.
MaxSteps == 3
\* Number of getSummary calls (fetchSimulationData dispatches included).
MaxCalls == 2
\* Number of store mutations the component's host commits.
MaxHostCommits == 1
\* Number of interval timers window.setInterval hands out.
MaxTimers == 3
\* Longest run list handed to Home.
MaxRuns == 3
\* Durations are counted in units of 1/Resolution second, from MaxElapsed
\* seconds overdue to MaxCountdown seconds.
Resolution == 2
MaxElapsed == 2
MaxCountdown == 62
\* Longest pair-contact list the backend returns.
MaxRows == 2
\* Longest statistics list and number of /statistics requests of Statcards.
MaxCards == 4
MaxFetches == 3
\* The heatmap canvas, in pixels, and the longest run of clear() calls.
CanvasWidth == 2
CanvasHeight == 2
MaxClears == 2
MaxReloads == 2
MaxCount == 1

\* ------------------------------------------------------------- constants
\* store/index.js:126  Math.ceil(1e8 / state.nAgents)
ChunkBudget == 100000000

Runs == {"A", "B"}
Floors == {"1", "2"}
\* The (NumberOfAgents, TotalTimesteps) pairs the backend reports: no agents
\* (chunk size Infinity), a negative step count, and chunk sizes 2, 1, 1e8.
SummaryData ==
    {<<0, MaxSteps>>, <<50000000, -1>>, <<50000000, MaxSteps>>,
     <<100000000, MaxSteps - 1>>, <<1, MaxSteps>>}

Null == <<>>
Some(v) == <<v>>
\* ToNumber of a nullable number: null coerces to 0.
ToNumber(x) == IF x = Null THEN 0 ELSE x[1]

Min(a, b) == IF a < b THEN a ELSE b
Max(a, b) == IF a > b THEN a ELSE b

VARIABLES
    state,          \* the Vuex store's state object
    summaryCache,   \* data_service _SUMMARY_CACHE: run id -> cached response
    calls,          \* getSummary calls made so far, with their promises
    mapReqs,        \* getBaseMap requests issued by fetchSimulationData
    trajPc,         \* position of the getTrajectoryData action
    request_arr,    \* its chunk requests, in the order they were pushed
    trajOutcome,    \* how its Promise.all settled
    mounted,        \* the Visualizer component is mounted
    simId,          \* its simId prop
    mapInstance,    \* its Map2D instance: null or the instance's fields
    hostCommits,    \* number of mutations the host committed so far
    home,           \* the Home component: policyList and overviewData
    loader,         \* a Loader: its countdown timer, duration and text
    pairChart,      \* PolicyList: the /pair response and its chartData
    statcards,      \* Statcards: simid, cardsData, its requests and the
                    \* response.data it handled last
    heatmap,        \* Heatmap: its canvas and 2d context
    engine          \* a Map2D that loads its own data: the instance, its
                    \* reloadSimulation calls and its color scale

storeVars == <<state, mapReqs, trajPc, request_arr, trajOutcome>>
serviceVars == <<summaryCache, calls>>
visVars == <<mounted, simId, mapInstance>>
hostVars == <<hostCommits>>
appVars == <<storeVars, serviceVars, visVars, hostVars>>
uiVars == <<home, loader, pairChart, statcards, heatmap, engine>>
vars == <<appVars, uiVars>>

\* ------------------------------------------------------- store: mutations
setTrajectoryData(s, trajectoryData) == [s EXCEPT !.trajectoryData = trajectoryData]
setNumberOfAgents(s, n) == [s EXCEPT !.nAgents = n]
setTotalSteps(s, n) == [s EXCEPT !.totalSteps = n]
setMapData(s, mapData) == [s EXCEPT !.mapData = mapData]
setFloorOptions(s, floorOptions) == [s EXCEPT !.floorOptions = floorOptions]
setSimulationID(s, id) == [s EXCEPT !.currentSimID = id]
setCurrentFloor(s, f) == [s EXCEPT !.currentFloor = f]
setCurrentStep(s, step) == [s EXCEPT !.currentStep = step]
updateStatus(s, status, msg) == [s EXCEPT !.status = status, !.errorMessage = msg]
removeMapData(s) ==
    [s EXCEPT !.mapData = Null, !.status = "null", !.currentFloor = "null"]
removeTrajectoryData(s) ==
    [s EXCEPT !.trajectoryData = Null, !.status = "mapReady", !.currentFloor = "null"]

InitState ==
    [currentSimID |-> "null", trajectoryData |-> Null, totalSteps |-> Null,
     nAgents |-> Null, mapData |-> Null, status |-> "null",
     errorMessage |-> "null", currentStep |-> Null, currentFloor |-> "null",
     floorOptions |-> Null]

\* ------------------------------------------------------------ Map2D engine
\* window.clearInterval(id): clearing null is a no-op.
clearInterval(timers, id) == IF id = Null THEN timers ELSE timers \ {id[1]}

\* new Map2D(mapRoot): the fields the constructor sets. timers are the
\* interval timers of the window whose callback belongs to this instance,
\* nextTimer the handle the next setInterval returns, lastFrame the index
\* _updateTrajectories read last, frameLog the indices update() read in the
\* running task; loaderShown tells whether the loader overlay is displayed
\* (the constructor hides it). markers are the frames whose contact circles are in
\* g#contacts; drawsContacts tells whether update() runs _updateContacts
\* (the self-loading engine) or not (the store-driven engine).
NewMap2D ==
    [animationIntervalID |-> Null, animationInterval |-> 10,
     currentStep |-> Some(0), trajectories |-> Null, floor |-> "undefined",
     svgMap |-> FALSE, destroyed |-> FALSE, timers |-> {}, nextTimer |-> 1,
     lastFrame |-> Null, frameLog |-> <<>>, markers |-> {},
     drawsContacts |-> FALSE, loaderShown |-> FALSE]

\* A new task (timer callback, DOM event) begins on instance m.
Task(m) == [m EXCEPT !.frameLog = <<>>]

Map2D_setTrajectoryData(m, trajData) == [m EXCEPT !.trajectories = trajData]
Map2D_setCurrentStep_Ignored(m, step) == m
Map2D_setCurrentStep(m, step) == [m EXCEPT !.currentStep = step]
Map2D_setMapData(m) == [m EXCEPT !.svgMap = TRUE]
Map2D_showLoader(m) == [m EXCEPT !.loaderShown = TRUE]
Map2D_hideLoader(m) == [m EXCEPT !.loaderShown = FALSE]

\* update(): _updateTrajectories binds trajectories[currentStep]; with no
\* trajectory array the property read throws and nothing changes.
\* _updateContacts appends the circles of contacts[currentStep], one list
\* of contacts per frame of the trajectory.
Map2D_update(m) ==
    IF m.trajectories = Null THEN m
    ELSE [m EXCEPT !.lastFrame = m.currentStep,
                   !.frameLog = Append(@, m.currentStep),
                   !.markers =
                       IF /\ m.drawsContacts
                          /\ m.currentStep # Null
                          /\ m.currentStep[1] < Len(m.trajectories[1])
                       THEN @ \cup {m.currentStep[1]} ELSE @]

Map2D_restartAnimation(m) ==
    Map2D_update([m EXCEPT !.currentStep = Some(0), !.markers = {}])

Map2D_stopAnimation(m) ==
    [m EXCEPT !.timers = clearInterval(m.timers, m.animationIntervalID),
              !.animationIntervalID = Null]

\* _resetInterval(): clear the installed timer, install a new one.
Map2D_resetInterval_NoClear(m) ==
    [m EXCEPT !.timers = m.timers \cup {m.nextTimer},
              !.animationIntervalID = Some(m.nextTimer),
              !.nextTimer = m.nextTimer + 1]

Map2D_resetInterval(m) ==
    [m EXCEPT !.timers = clearInterval(m.timers, m.animationIntervalID)
                            \cup {m.nextTimer},
              !.animationIntervalID = Some(m.nextTimer),
              !.nextTimer = m.nextTimer + 1]

Map2D_startAnimation(m) == Map2D_resetInterval(m)

Map2D_setSpeed(m, newSpeed) ==
    Map2D_resetInterval([m EXCEPT !.animationInterval = 1000 \div newSpeed])

\* Removing #svg-map removes the g#contacts layer with it.
Map2D_reloadSimulation(m) ==
    [Map2D_stopAnimation(m) EXCEPT !.svgMap = FALSE, !.currentStep = Some(0),
                                   !.markers = {}]

Map2D_setFloor(m, f) == Map2D_reloadSimulation([m EXCEPT !.floor = f])

Map2D_destroy(m) ==
    [m EXCEPT !.timers = clearInterval(m.timers, m.animationIntervalID),
              !.destroyed = TRUE, !.svgMap = FALSE, !.markers = {}]

\* The callback _resetInterval hands to setInterval. Reading
\* trajectories.length of an unset trajectory throws after the increment.
Map2D_tick_NoWrap(m) ==
    Map2D_update([m EXCEPT !.currentStep = Some(ToNumber(m.currentStep) + 1)])

Map2D_tick(m) ==
    LET m1 == [m EXCEPT !.currentStep = Some(ToNumber(m.currentStep) + 1)]
    IN  IF m1.trajectories = Null THEN m1
        ELSE IF m1.currentStep[1] >= Len(m1.trajectories[1])
             THEN Map2D_update(Map2D_restartAnimation(m1))
             ELSE Map2D_update(m1)

\* ------------------------------------------------------------ data service
\* A summary response as axios delivers it: rid identifies the response
\* object (the call whose request it answers); wellFormed is FALSE for a
\* body without a Floors list.
SummaryResponses(k, simulation) ==
    {[rid |-> k, simulation |-> simulation, NumberOfAgents |-> d[1],
      TotalTimesteps |-> d[2], wellFormed |-> TRUE, Floors |-> <<"1", "2">>] :
        d \in SummaryData}
    \cup
    {[rid |-> k, simulation |-> simulation, NumberOfAgents |-> 1,
      TotalTimesteps |-> 0, wellFormed |-> FALSE, Floors |-> <<>>]}

\* _SUMMARY_CACHE.set(simulation, response)
CacheSet_KeepFirst(cache, simulation, response) ==
    IF cache[simulation] # Null THEN cache
    ELSE [cache EXCEPT ![simulation] = Some(response)]

CacheSet_Dropped(cache, simulation, response) == cache

CacheSet(cache, simulation, response) ==
    [cache EXCEPT ![simulation] = Some(response)]

\* getSummary(simulation): the promise it returns. A cache hit resolves at
\* once with the cached object, a miss issues a network request.
getSummary(cache, simulation, then) ==
    IF cache[simulation] # Null
    THEN [simulation |-> simulation, then |-> then, pc |-> "resolved",
          resp |-> cache[simulation], net |-> FALSE, threw |-> FALSE]
    ELSE [simulation |-> simulation, then |-> then, pc |-> "pending",
          resp |-> Null, net |-> TRUE, threw |-> FALSE]

\* ---------------------------------------------------------- store: actions
\* return new Promise(() => {...}) of fetchSimulationData (index.js 100,
\* part_001 99): the executor takes neither resolve nor reject and its body
\* is enclosed in try/catch, so the promise the dispatch returns starts
\* pending. A dispatch is recorded as its getSummary call with that promise.
NewDispatch(call) ==
    [simulation |-> call.simulation, then |-> call.then, pc |-> call.pc,
     resp |-> call.resp, net |-> call.net, threw |-> call.threw,
     promise |-> "pending"]

\* The reaction fetchSimulationData attaches to the summary promise
\* (index.js 102-116), run for call k: the new store state and map requests.
SummaryHandler(s, mrs, k, response) ==
    IF ~response.wellFormed
    THEN [state |-> s, mapReqs |-> mrs, threw |-> TRUE]
    ELSE
      LET s1 == setFloorOptions(s, Some(response.Floors))
          s2 == setNumberOfAgents(s1, Some(response.NumberOfAgents))
          s3 == setTotalSteps(s2, Some(response.TotalTimesteps))
          req == [call |-> k, simulation |-> s3.currentSimID,
                  floor |-> s3.currentFloor, pc |-> "pending"]
          s4 == IF response.NumberOfAgents < 1 \/ response.TotalTimesteps < 0
                THEN updateStatus(s3, "error",
                                  "Number of agents or total steps is zero.")
                ELSE s3
      IN  [state |-> s4, mapReqs |-> Append(mrs, req), threw |-> FALSE]

\* dispatch("fetchSimulationData") on store state s (index.js 97-123). The
\* try/catch encloses only the synchronous call of getSummary(...).then(...),
\* which does not throw.
fetchSimulationData(s, cache, cs, mrs) ==
    LET s1 == updateStatus(s, "fetchingSimulationData", "null")
        call == NewDispatch(getSummary(cache, s1.currentSimID, "store"))
        k == Len(cs) + 1
    IN  IF call.pc = "resolved"
        THEN LET h == SummaryHandler(s1, mrs, k, call.resp[1])
             IN  [state |-> h.state, mapReqs |-> h.mapReqs,
                  calls |-> Append(cs, [call EXCEPT !.threw = h.threw])]
        ELSE [state |-> s1, mapReqs |-> mrs, calls |-> Append(cs, call)]

\* The reaction to the base map response (index.js 109-112), and the same
\* with a test of the run the request was issued for.
MapHandler_Guarded(s, req) ==
    IF req.simulation # s.currentSimID THEN s
    ELSE updateStatus(
           setMapData(s, Some([simulation |-> req.simulation, floor |-> req.floor])),
           "mapReady", "null")

MapHandler(s, req) ==
    updateStatus(
        setMapData(s, Some([simulation |-> req.simulation, floor |-> req.floor])),
        "mapReady", "null")

\* JavaScript's Infinity, the chunk size for nAgents = 0 or null.
Infinity == <<>>

\* Math.ceil(1e8 / state.nAgents), for nAgents >= 0 or null.
MaxChunkSize(nAgents) ==
    IF ToNumber(nAgents) = 0 THEN Infinity
    ELSE Some((ChunkBudget + ToNumber(nAgents) - 1) \div ToNumber(nAgents))

\* getTrajectory(simulation, floor, first_timestep, max_steps): the request.
getTrajectory(simulation, floor, first_timestep, max_steps) ==
    [simulation |-> simulation, floor |-> floor,
     first_timestep |-> first_timestep, max_steps |-> max_steps,
     pc |-> "pending", data |-> <<>>, arrivedAt |-> 0]

\* The request loop of getTrajectoryData (index.js 129-138), from
\* first_timestep on, appended to acc.
RECURSIVE PushRequests_Inclusive(_, _, _, _)
PushRequests_Inclusive(s, first_timestep, max_chunk_size, acc) ==
    IF first_timestep <= ToNumber(s.totalSteps)
    THEN LET req == getTrajectory(s.currentSimID, s.currentFloor,
                                  first_timestep, max_chunk_size)
         IN  IF max_chunk_size = Infinity THEN Append(acc, req)
             ELSE PushRequests_Inclusive(s, first_timestep + max_chunk_size[1],
                                         max_chunk_size, Append(acc, req))
    ELSE acc

RECURSIVE PushRequests(_, _, _, _)
PushRequests(s, first_timestep, max_chunk_size, acc) ==
    IF first_timestep < ToNumber(s.totalSteps)
    THEN LET req == getTrajectory(s.currentSimID, s.currentFloor,
                                  first_timestep, max_chunk_size)
         IN  IF max_chunk_size = Infinity THEN Append(acc, req)
             ELSE PushRequests(s, first_timestep + max_chunk_size[1],
                               max_chunk_size, Append(acc, req))
    ELSE acc

\* The frames a chunk response carries: len frames from first_timestep on.
ChunkData(req, len) ==
    [i \in 1 .. len |-> <<req.simulation, req.first_timestep + i - 1>>]

\* response.forEach(chunk => trajectories = trajectories.concat(...)) over
\* the array Promise.all resolves with, which is in request order.
RECURSIVE ConcatChunks(_, _)
ConcatChunks(reqs, i) ==
    IF i > Len(reqs) THEN <<>> ELSE reqs[i].data \o ConcatChunks(reqs, i + 1)

\* The same over the responses in the order they arrived.
RECURSIVE ConcatArrived(_, _)
ConcatArrived(reqs, n) ==
    IF n > Len(reqs) THEN <<>>
    ELSE LET i == CHOOSE j \in 1 .. Len(reqs) : reqs[j].arrivedAt = n
         IN  reqs[i].data \o ConcatArrived(reqs, n + 1)

JoinChunks_ArrivalOrder(reqs) == ConcatArrived(reqs, 1)

JoinChunks(reqs) == ConcatChunks(reqs, 1)

\* Promise.all(request_arr) resolved (index.js 139-146), then the statements
\* after the await (152-153).
TrajectoryResolved_StaleSteps(s, reqs) ==
    LET trajs == JoinChunks(reqs)
    IN  updateStatus(setTrajectoryData(s, Some(trajs)), "trajectoryReady", "null")

TrajectoryResolved(s, reqs) ==
    LET trajs == JoinChunks(reqs)
        s1 == setTrajectoryData(s, Some(trajs))
        s2 == setTotalSteps(s1, Some(Len(trajs)))
    IN  updateStatus(s2, "trajectoryReady", "null")

\* Promise.all(request_arr) rejected with err: the catch reaction
\* (147-151), then the statements after the await (152-153), where the
\* local trajectories is still [].
TrajectoryRejected(s, err) ==
    LET s1 == setTrajectoryData(s, Null)
        s2 == updateStatus(s1, "error", err)
        s3 == setTotalSteps(s2, Some(0))
    IN  updateStatus(s3, "trajectoryReady", "null")

\* -------------------------------------------------------------- Visualizer
\* createMapInstance() (PlotVisualization.vue 256-325): the new instance,
\* and whether floorOptions[0] threw on a null floor list, which leaves the
\* instance assigned and skips the rest of the caller.
createMapInstance(s) ==
    IF s.floorOptions = Null THEN [inst |-> NewMap2D, threw |-> TRUE]
    ELSE [inst |-> [NewMap2D EXCEPT !.floor =
                       IF Len(s.floorOptions[1]) = 0 THEN "undefined"
                       ELSE s.floorOptions[1][1]],
          threw |-> FALSE]

\* The second branch of showSimulationMap: the store holds a trajectory.
ShowStoredTrajectory(s) ==
    LET c == createMapInstance(s)
    IN  IF c.threw THEN Some(c.inst)
        ELSE Some(Map2D_startAnimation(
                    Map2D_setCurrentStep(
                      Map2D_setTrajectoryData(c.inst, s.trajectoryData),
                      s.currentStep)))

\* createMapInstance() followed by loader.show(), loader.mapLoaded() and
\* loader.startCountdown(...), as watch.mapData and the third branch of
\* showSimulationMap do.
ShowLoading(s) ==
    LET c == createMapInstance(s)
    IN  IF c.threw THEN c.inst ELSE Map2D_showLoader(c.inst)

\* showSimulationMap() (219-245) for the prop value sid.
showSimulationMap(s, cache, cs, mrs, mi, sid) ==
    IF s.trajectoryData = Null /\ s.status \in {"ready", "null"}
    THEN LET f == fetchSimulationData(setSimulationID(s, sid), cache, cs, mrs)
         IN  [state |-> f.state, calls |-> f.calls, mapReqs |-> f.mapReqs,
              mapInstance |-> mi]
    ELSE IF s.trajectoryData # Null
    THEN [state |-> s, calls |-> cs, mapReqs |-> mrs,
          mapInstance |-> ShowStoredTrajectory(s)]
    ELSE IF s.status = "fetchingData" /\ s.mapData # Null
    THEN [state |-> s, calls |-> cs, mapReqs |-> mrs,
          mapInstance |-> Some(ShowLoading(s))]
    ELSE [state |-> s, calls |-> cs, mapReqs |-> mrs, mapInstance |-> mi]

\* watch.status (178-184): throws on a null mapInstance.
StatusWatcher(old, new, mi) ==
    IF old.status = "fetchingData" /\ new.status = "ready" /\ mi # Null
    THEN Some(Map2D_startAnimation(
                Map2D_hideLoader(
                  Map2D_setTrajectoryData(mi[1], new.trajectoryData))))
    ELSE mi

\* watch.mapData (185-191)
MapDataWatcher(old, new, mi) ==
    IF old.mapData # new.mapData THEN Some(ShowLoading(new)) ELSE mi

\* The component's store watchers, flushed after a task changed the store
\* from old to new.
Watchers(old, new, mi) ==
    IF mounted THEN MapDataWatcher(old, new, StatusWatcher(old, new, mi)) ELSE mi

\* A task outside the component leaves the store in state s.
Commit(s) ==
    /\ state' = s
    /\ mapInstance' = Watchers(state, s, mapInstance)

\* --------------------------------------------------------------- actions
\* mounted() with simId = r.
Mount(r) ==
    /\ ~mounted
    /\ LET v == showSimulationMap(state, summaryCache, calls, mapReqs, Null, r)
       IN  /\ Len(v.calls) <= MaxCalls
           /\ state' = v.state
           /\ calls' = v.calls
           /\ mapReqs' = v.mapReqs
           /\ mapInstance' = v.mapInstance
    /\ mounted' = TRUE
    /\ simId' = r
    /\ UNCHANGED <<uiVars, hostCommits, summaryCache, trajPc, request_arr, trajOutcome>>

\* watch.simId (192-201): the parent changes the prop to r.
SimIdChange(r) ==
    /\ mounted
    /\ r # simId
    /\ LET v == showSimulationMap(state, summaryCache, calls, mapReqs, Null, r)
       IN  /\ Len(v.calls) <= MaxCalls
           /\ state' = v.state
           /\ calls' = v.calls
           /\ mapReqs' = v.mapReqs
           /\ mapInstance' = v.mapInstance
    /\ simId' = r
    /\ UNCHANGED <<uiVars, hostCommits, summaryCache, trajPc, request_arr, trajOutcome, mounted>>

\* beforeDestroy() (203-213), after which the component is gone.
BeforeDestroy ==
    /\ mounted
    /\ state' = IF mapInstance # Null /\ state.trajectoryData # Null
                THEN setCurrentStep(state, mapInstance[1].currentStep)
                ELSE state
    /\ mapInstance' = Null
    /\ mounted' = FALSE
    /\ simId' = "null"
    /\ UNCHANGED <<uiVars, hostCommits, summaryCache, calls, mapReqs, trajPc, request_arr, trajOutcome>>

\* The response to the network request of getSummary call k arrives
\* (data_service.js 214-217), then the caller's reaction runs.
SummaryResponse(k, response) ==
    /\ calls[k].pc = "pending"
    /\ summaryCache' = CacheSet(summaryCache, calls[k].simulation, response)
    /\ IF calls[k].then = "store"
       THEN LET h == SummaryHandler(state, mapReqs, k, response)
            IN  /\ Commit(h.state)
                /\ mapReqs' = h.mapReqs
                /\ calls' = [calls EXCEPT ![k].pc = "resolved",
                                          ![k].resp = Some(response),
                                          ![k].threw = h.threw]
       ELSE /\ calls' = [calls EXCEPT ![k].pc = "resolved",
                                      ![k].resp = Some(response)]
            /\ UNCHANGED <<state, mapReqs, mapInstance>>
    /\ UNCHANGED <<uiVars, hostCommits, trajPc, request_arr, trajOutcome, mounted, simId>>

\* The network request of getSummary call k fails: the promise rejects and
\* no reaction is attached to the rejection.
SummaryFailure(k) ==
    /\ calls[k].pc = "pending"
    /\ calls' = [calls EXCEPT ![k].pc = "rejected"]
    /\ UNCHANGED <<uiVars, hostCommits, state, summaryCache, mapReqs, trajPc, request_arr,
                   trajOutcome, visVars>>

\* The base map response for request j arrives.
MapResponse(j) ==
    /\ mapReqs[j].pc = "pending"
    /\ Commit(MapHandler(state, mapReqs[j]))
    /\ mapReqs' = [mapReqs EXCEPT ![j].pc = "done"]
    /\ UNCHANGED <<uiVars, hostCommits, summaryCache, calls, trajPc, request_arr, trajOutcome,
                   mounted, simId>>

\* The base map request j fails: no reaction is attached to the rejection.
MapFailure(j) ==
    /\ mapReqs[j].pc = "pending"
    /\ mapReqs' = [mapReqs EXCEPT ![j].pc = "failed"]
    /\ UNCHANGED <<uiVars, hostCommits, state, summaryCache, calls, trajPc, request_arr,
                   trajOutcome, visVars>>

\* dispatch("getTrajectoryData") (index.js 124-138) by the component's
\* host; one dispatch is in flight at a time. With no request to wait
\* for, Promise.all([]) resolves within the same task.
Host_getTrajectoryData ==
    /\ trajPc # "awaiting"
    /\ LET s1 == updateStatus(state, "fetchingTrajectoryData", "null")
           reqs == PushRequests(s1, 0, MaxChunkSize(state.nAgents), <<>>)
       IN  /\ request_arr' = reqs
           /\ IF reqs = <<>>
              THEN /\ Commit(TrajectoryResolved(s1, reqs))
                   /\ trajPc' = "done"
                   /\ trajOutcome' = "resolved"
              ELSE /\ Commit(s1)
                   /\ trajPc' = "awaiting"
                   /\ trajOutcome' = "pending"
    /\ UNCHANGED <<uiVars, hostCommits, summaryCache, calls, mapReqs, mounted, simId>>

Arrived(reqs) == Cardinality({j \in 1 .. Len(reqs) : reqs[j].pc # "pending"})

\* The number of frames the backend holds from first_timestep on, at most
\* max_steps of which a chunk carries.
ChunkLengths(req) ==
    0 .. Max(0, Min(IF req.max_steps = Infinity THEN MaxSteps ELSE req.max_steps[1],
                    MaxSteps - req.first_timestep))

\* The response to chunk request i arrives with len frames; when it is the
\* last one, Promise.all resolves and the action runs to its end.
ChunkResponse(i, len) ==
    /\ trajPc = "awaiting"
    /\ request_arr[i].pc = "pending"
    /\ LET reqs == [request_arr EXCEPT ![i].pc = "ok",
                                       ![i].data = ChunkData(request_arr[i], len),
                                       ![i].arrivedAt = Arrived(request_arr) + 1]
       IN  /\ request_arr' = reqs
           /\ IF \A j \in 1 .. Len(reqs) : reqs[j].pc = "ok"
              THEN /\ Commit(TrajectoryResolved(state, reqs))
                   /\ trajPc' = "done"
                   /\ trajOutcome' = "resolved"
              ELSE UNCHANGED <<state, mapInstance, trajPc, trajOutcome>>
    /\ UNCHANGED <<uiVars, hostCommits, summaryCache, calls, mapReqs, mounted, simId>>

\* Chunk request i fails: Promise.all rejects and the action runs to its
\* end. Responses still outstanding are dropped by Promise.all.
ChunkFailure(i) ==
    /\ trajPc = "awaiting"
    /\ request_arr[i].pc = "pending"
    /\ request_arr' = [request_arr EXCEPT ![i].pc = "failed",
                                          ![i].arrivedAt = Arrived(request_arr) + 1]
    /\ Commit(TrajectoryRejected(state, "Network Error"))
    /\ trajPc' = "done"
    /\ trajOutcome' = "rejected"
    /\ UNCHANGED <<uiVars, hostCommits, summaryCache, calls, mapReqs, mounted, simId>>

\* commit("removeMapData"), commit("removeTrajectoryData") and
\* commit("setCurrentFloor", f) by the component's host.
Host_removeMapData ==
    /\ hostCommits < MaxHostCommits
    /\ hostCommits' = hostCommits + 1
    /\ Commit(removeMapData(state))
    /\ UNCHANGED <<summaryCache, calls, mapReqs, trajPc, request_arr,
                   trajOutcome, mounted, simId, uiVars>>

Host_removeTrajectoryData ==
    /\ hostCommits < MaxHostCommits
    /\ hostCommits' = hostCommits + 1
    /\ Commit(removeTrajectoryData(state))
    /\ UNCHANGED <<summaryCache, calls, mapReqs, trajPc, request_arr,
                   trajOutcome, mounted, simId, uiVars>>

Host_setCurrentFloor(f) ==
    /\ hostCommits < MaxHostCommits
    /\ hostCommits' = hostCommits + 1
    /\ state.currentFloor # f
    /\ Commit(setCurrentFloor(state, f))
    /\ UNCHANGED <<summaryCache, calls, mapReqs, trajPc, request_arr,
                   trajOutcome, mounted, simId, uiVars>>

\* The store, the data service and the Visualizer before any use.
AppIdle ==
    /\ state = InitState
    /\ summaryCache = [r \in Runs |-> Null]
    /\ calls = <<>>
    /\ mapReqs = <<>>
    /\ trajPc = "idle"
    /\ request_arr = <<>>
    /\ trajOutcome = "none"
    /\ mounted = FALSE
    /\ simId = "null"
    /\ mapInstance = Null
    /\ hostCommits = 0

\* Home's data() with the run list l the backend holds: policyList: [],
\* overviewData: { facilities: [] }, policies: [], simRuns: [], the
\* selections '' and runId null.
HomeData(l) ==
    [policyList |-> l, facilities |-> <<>>, pc |-> "idle",
     policies |-> <<>>, simRuns |-> <<>>, selectedFacility |-> "",
     selectedSimulation |-> "", polHash |-> "", selectedRun |-> Null,
     runId |-> Null]

HomeIdle == home = HomeData(<<>>)

\* new Loader(parent): no countdown started, #countdown-root is empty, both
\* spinners carry the class "loader" of the template, the root is displayed
\* until someone hides it.
LoaderIdle ==
    loader = [countdown |-> "none", duration |-> 0,
              innerText |-> [kind |-> "empty", minutes |-> 0, seconds |-> 0],
              display |-> "inline", trajectoryElem |-> {"loader"},
              mapElem |-> {"loader"}]

\* PolicyList's data(): chartData: [].
PairChartIdle == pairChart = [data |-> <<>>, chartData |-> <<>>, pc |-> "idle"]

\* Statcards' data(): cardsData: [], before it is mounted.
StatcardsIdle ==
    statcards = [mounted |-> FALSE, simid |-> "null", cardsData |-> <<>>,
                 requests |-> <<>>, response |-> <<>>]

\* new Heatmap(params): a new canvas is transparent, its context has the
\* identity transform and an empty state stack. painted are the pixels that
\* are not transparent, clears the clear() calls made in a row.
IdentityTransform == [scale |-> 1, dx |-> 0, dy |-> 0]

HeatmapIdle ==
    heatmap = [painted |-> {}, transform |-> IdentityTransform,
               stack |-> <<>>, clears |-> 0]

\* new Map2D(mapRoot) of the engine that loads its own data (part_005
\* 39-86, part_007 39-82): no simulation, no reloadSimulation call made,
\* and the color scale with the domain [0, 1] scaleSequential starts with.
EngineNew(version) ==
    [version |-> version, m |-> [NewMap2D EXCEPT !.drawsContacts = TRUE],
     simulation |-> "null", loads |-> <<>>, domain |-> <<0, 1>>]

EngineIdle == engine = EngineNew("part_007")

UiIdle ==
    /\ HomeIdle /\ LoaderIdle /\ PairChartIdle /\ StatcardsIdle /\ HeatmapIdle
    /\ EngineIdle

Init == AppIdle /\ UiIdle

\* The component as the sources mount it, the network, and the host's
\* dispatch of getTrajectoryData.
Next ==
    \/ \E r \in Runs : Mount(r)
    \/ \E r \in Runs : SimIdChange(r)
    \/ BeforeDestroy
    \/ \E k \in 1 .. Len(calls) :
         \E response \in SummaryResponses(k, calls[k].simulation) :
           SummaryResponse(k, response)
    \/ \E k \in 1 .. Len(calls) : SummaryFailure(k)
    \/ \E j \in 1 .. Len(mapReqs) : MapResponse(j)
    \/ \E j \in 1 .. Len(mapReqs) : MapFailure(j)
    \/ Host_getTrajectoryData
    \/ \E i \in 1 .. Len(request_arr) :
         \E len \in ChunkLengths(request_arr[i]) : ChunkResponse(i, len)
    \/ \E i \in 1 .. Len(request_arr) : ChunkFailure(i)

Spec == Init /\ [][Next]_vars

\* The summaries whose trajectory is a single chunk.
HostSummaryResponses(k, simulation) ==
    {r \in SummaryResponses(k, simulation) :
        r.NumberOfAgents <= 1 \/ r.TotalTimesteps < 0}

\* The same with a host that also commits the store's teardown mutations
\* and the floor.
NextHost ==
    \/ \E r \in Runs : Mount(r)
    \/ \E r \in Runs : SimIdChange(r)
    \/ BeforeDestroy
    \/ \E k \in 1 .. Len(calls) :
         \E response \in HostSummaryResponses(k, calls[k].simulation) :
           SummaryResponse(k, response)
    \/ \E k \in 1 .. Len(calls) : SummaryFailure(k)
    \/ \E j \in 1 .. Len(mapReqs) : MapResponse(j)
    \/ \E j \in 1 .. Len(mapReqs) : MapFailure(j)
    \/ Host_getTrajectoryData
    \/ \E i \in 1 .. Len(request_arr) :
         \E len \in ChunkLengths(request_arr[i]) : ChunkResponse(i, len)
    \/ \E i \in 1 .. Len(request_arr) : ChunkFailure(i)
    \/ Host_removeMapData
    \/ Host_removeTrajectoryData
    \/ \E f \in Floors : Host_setCurrentFloor(f)

SpecHost == Init /\ [][NextHost]_vars

\* ------------------------------------------------- data service on its own
\* A caller other than the store asks for the summary of run r.
GetSummary(r) ==
    /\ Len(calls) < MaxCalls
    /\ calls' = Append(calls, getSummary(summaryCache, r, "none"))
    /\ UNCHANGED <<summaryCache, storeVars, visVars, hostVars, uiVars>>

NextSummary ==
    \/ \E r \in Runs : GetSummary(r)
    \/ \E k \in 1 .. Len(calls) :
         \E response \in SummaryResponses(k, calls[k].simulation) :
           SummaryResponse(k, response)
    \/ \E k \in 1 .. Len(calls) : SummaryFailure(k)

SpecSummary == Init /\ [][NextSummary]_vars

\* ------------------------------------- the store with status 'ready'
\* The store whose fetchSimulationData dispatches getTrajectoryData itself
\* and whose statuses are fetchingData | error | ready.
Alt_MapHandler(s, req) ==
    setMapData(s, Some([simulation |-> req.simulation, floor |-> req.floor]))

\* Promise.all(request_arr) resolved, then the statement after the await.
Alt_TrajectoryResolved(s, reqs) ==
    LET trajs == JoinChunks(reqs)
        s1 == setTrajectoryData(s, Some(trajs))
        s2 == updateStatus(s1, "ready", "null")
    IN  setTotalSteps(s2, Some(Len(trajs)))

\* dispatch("getTrajectoryData") up to its await; with no request to wait
\* for, Promise.all([]) resolves within the same task.
Alt_getTrajectoryData(s) ==
    LET reqs == PushRequests(s, 0, MaxChunkSize(s.nAgents), <<>>)
    IN  IF reqs = <<>>
        THEN [state |-> Alt_TrajectoryResolved(s, reqs), reqs |-> reqs,
              pc |-> "done"]
        ELSE [state |-> s, reqs |-> reqs, pc |-> "awaiting"]

\* The reaction to the summary response; traj is the dispatch of
\* getTrajectoryData it made, if any.
Alt_SummaryHandler(s, mrs, k, response) ==
    IF ~response.wellFormed
    THEN [state |-> s, mapReqs |-> mrs, threw |-> TRUE, traj |-> Null]
    ELSE
      LET s1 == setFloorOptions(s, Some(response.Floors))
          s2 == setNumberOfAgents(s1, Some(response.NumberOfAgents))
          s3 == setTotalSteps(s2, Some(response.TotalTimesteps))
          req == [call |-> k, simulation |-> s3.currentSimID,
                  floor |-> s3.currentFloor, pc |-> "pending"]
      IN  IF response.NumberOfAgents > 0 \/ response.TotalTimesteps >= 0
          THEN LET g == Alt_getTrajectoryData(s3)
               IN  [state |-> g.state, mapReqs |-> Append(mrs, req),
                    threw |-> FALSE, traj |-> Some(g)]
          ELSE [state |-> updateStatus(s3, "error",
                              "Number of agents or total steps is zero."),
                mapReqs |-> Append(mrs, req), threw |-> FALSE, traj |-> Null]

Alt_fetchSimulationData(s, cache, cs, mrs) ==
    LET s1 == updateStatus(s, "fetchingData", "null")
        call == NewDispatch(getSummary(cache, s1.currentSimID, "store"))
        k == Len(cs) + 1
    IN  IF call.pc = "resolved"
        THEN LET h == Alt_SummaryHandler(s1, mrs, k, call.resp[1])
             IN  [state |-> h.state, mapReqs |-> h.mapReqs, traj |-> h.traj,
                  calls |-> Append(cs, [call EXCEPT !.threw = h.threw])]
        ELSE [state |-> s1, mapReqs |-> mrs, traj |-> Null,
              calls |-> Append(cs, call)]

\* showSimulationMap() (219-245) over this store.
Alt_showSimulationMap(s, cache, cs, mrs, mi, sid) ==
    IF s.trajectoryData = Null /\ s.status \in {"ready", "null"}
    THEN LET f == Alt_fetchSimulationData(setSimulationID(s, sid), cache,
                                          cs, mrs)
         IN  [state |-> f.state, calls |-> f.calls, mapReqs |-> f.mapReqs,
              traj |-> f.traj, mapInstance |-> mi]
    ELSE IF s.trajectoryData # Null
    THEN [state |-> s, calls |-> cs, mapReqs |-> mrs, traj |-> Null,
          mapInstance |-> ShowStoredTrajectory(s)]
    ELSE IF s.status = "fetchingData" /\ s.mapData # Null
    THEN [state |-> s, calls |-> cs, mapReqs |-> mrs, traj |-> Null,
          mapInstance |-> Some(ShowLoading(s))]
    ELSE [state |-> s, calls |-> cs, mapReqs |-> mrs, traj |-> Null,
          mapInstance |-> mi]

\* The dispatch of getTrajectoryData a task made, if any, takes over the
\* request array.
Alt_Dispatched(traj) ==
    IF traj = Null THEN UNCHANGED <<request_arr, trajPc, trajOutcome>>
    ELSE /\ request_arr' = traj[1].reqs
         /\ trajPc' = traj[1].pc
         /\ trajOutcome' = IF traj[1].pc = "done" THEN "resolved" ELSE "pending"

Alt_Mount(r) ==
    /\ ~mounted
    /\ LET v == Alt_showSimulationMap(state, summaryCache, calls, mapReqs,
                                      Null, r)
       IN  /\ Len(v.calls) <= MaxCalls
           /\ state' = v.state
           /\ calls' = v.calls
           /\ mapReqs' = v.mapReqs
           /\ mapInstance' = v.mapInstance
           /\ Alt_Dispatched(v.traj)
    /\ mounted' = TRUE
    /\ simId' = r
    /\ UNCHANGED <<uiVars, hostCommits, summaryCache>>

Alt_SummaryResponse(k, response) ==
    /\ calls[k].pc = "pending"
    /\ summaryCache' = CacheSet(summaryCache, calls[k].simulation, response)
    /\ LET h == Alt_SummaryHandler(state, mapReqs, k, response)
       IN  /\ Commit(h.state)
           /\ mapReqs' = h.mapReqs
           /\ calls' = [calls EXCEPT ![k].pc = "resolved",
                                     ![k].resp = Some(response),
                                     ![k].threw = h.threw]
           /\ Alt_Dispatched(h.traj)
    /\ UNCHANGED <<uiVars, hostCommits, mounted, simId>>

Alt_MapResponse(j) ==
    /\ mapReqs[j].pc = "pending"
    /\ Commit(Alt_MapHandler(state, mapReqs[j]))
    /\ mapReqs' = [mapReqs EXCEPT ![j].pc = "done"]
    /\ UNCHANGED <<uiVars, hostCommits, summaryCache, calls, trajPc, request_arr,
                   trajOutcome, mounted, simId>>

Alt_ChunkResponse(i, len) ==
    /\ trajPc = "awaiting"
    /\ request_arr[i].pc = "pending"
    /\ LET reqs == [request_arr EXCEPT ![i].pc = "ok",
                                       ![i].data = ChunkData(request_arr[i], len),
                                       ![i].arrivedAt = Arrived(request_arr) + 1]
       IN  /\ request_arr' = reqs
           /\ IF \A j \in 1 .. Len(reqs) : reqs[j].pc = "ok"
              THEN /\ Commit(Alt_TrajectoryResolved(state, reqs))
                   /\ trajPc' = "done"
                   /\ trajOutcome' = "resolved"
              ELSE UNCHANGED <<state, mapInstance, trajPc, trajOutcome>>
    /\ UNCHANGED <<uiVars, hostCommits, summaryCache, calls, mapReqs, mounted, simId>>

\* ------------------------------------------------------ Map2D on its own
\* One Map2D instance and the calls its control panel and its owner make.
InitMap ==
    /\ state = InitState
    /\ summaryCache = [r \in Runs |-> Null]
    /\ calls = <<>>
    /\ mapReqs = <<>>
    /\ trajPc = "idle"
    /\ request_arr = <<>>
    /\ trajOutcome = "none"
    /\ mounted = FALSE
    /\ simId = "null"
    /\ \E c \in BOOLEAN :
           mapInstance = Some([NewMap2D EXCEPT !.drawsContacts = c])
    /\ hostCommits = 0
    /\ UiIdle

\* The speeds (frames per second) the panel's Speed control is set to.
Speeds == {1, 10, 250}

MapCall(m) ==
    /\ mapInstance' = Some(m)
    /\ UNCHANGED <<storeVars, serviceVars, mounted, simId, hostVars, uiVars>>

Map_setTrajectoryData(n) ==
    /\ mapInstance # Null
    /\ MapCall(Map2D_setTrajectoryData(mapInstance[1],
                   Some([i \in 1 .. n |-> <<"A", i - 1>>])))

Map_setMapData ==
    /\ mapInstance # Null
    /\ MapCall(Map2D_setMapData(mapInstance[1]))

Map_startAnimation ==
    /\ mapInstance # Null
    /\ mapInstance[1].nextTimer <= MaxTimers
    /\ MapCall(Map2D_startAnimation(mapInstance[1]))

Map_stopAnimation ==
    /\ mapInstance # Null
    /\ MapCall(Map2D_stopAnimation(mapInstance[1]))

Map_setSpeed(v) ==
    /\ mapInstance # Null
    /\ mapInstance[1].nextTimer <= MaxTimers
    /\ MapCall(Map2D_setSpeed(mapInstance[1], v))

Map_restartAnimation ==
    /\ mapInstance # Null
    /\ MapCall(Map2D_restartAnimation(Task(mapInstance[1])))

Map_setFloor(f) ==
    /\ mapInstance # Null
    /\ MapCall(Map2D_setFloor(mapInstance[1], f))

\* The Timestep slider (PlotVisualization.vue 306-312) is moved to i.
Map_slider(i) ==
    /\ mapInstance # Null
    /\ MapCall(Map2D_update(Map2D_setCurrentStep(Task(mapInstance[1]),
                                                  Some(i))))

\* Interval timer id fires. Without a trajectory the callback throws after
\* the increment, so the frame counter is capped there.
Map_tick(id) ==
    /\ mapInstance # Null
    /\ id \in mapInstance[1].timers
    /\ mapInstance[1].trajectories = Null
         => ToNumber(mapInstance[1].currentStep) < MaxSteps
    /\ MapCall(Map2D_tick(Task(mapInstance[1])))

Map_destroy ==
    /\ mapInstance # Null
    /\ MapCall(Map2D_destroy(mapInstance[1]))

NextMap ==
    \/ \E n \in 0 .. MaxSteps : Map_setTrajectoryData(n)
    \/ Map_setMapData
    \/ Map_startAnimation
    \/ Map_stopAnimation
    \/ \E v \in Speeds : Map_setSpeed(v)
    \/ Map_restartAnimation
    \/ \E f \in Floors : Map_setFloor(f)
    \/ \E i \in 0 .. MaxSteps : Map_slider(i)
    \/ \E id \in 1 .. MaxTimers : Map_tick(id)
    \/ Map_destroy

SpecMap == InitMap /\ [][NextMap]_vars

\* The operator picks floor f in the panel's Floor control, whose options
\* are the store's floorOptions (["1"] when createMapInstance threw before
\* replacing them): onChange calls mapInstance.setFloor(f).
ChooseFloor(f) ==
    /\ mounted
    /\ mapInstance # Null
    /\ f \in (IF state.floorOptions = Null THEN {"1"}
              ELSE {state.floorOptions[1][i] :
                       i \in 1 .. Len(state.floorOptions[1])})
    /\ MapCall(Map2D_setFloor(mapInstance[1], f))

\* The Visualizer over the store with status 'ready': mounting and
\* teardown, the network, the animation timer and the Timestep slider.
NextAlt ==
    \/ \E r \in Runs : Alt_Mount(r)
    \/ BeforeDestroy
    \/ \E k \in 1 .. Len(calls) :
         \E response \in SummaryResponses(k, calls[k].simulation) :
           Alt_SummaryResponse(k, response)
    \/ \E j \in 1 .. Len(mapReqs) : Alt_MapResponse(j)
    \/ \E i \in 1 .. Len(request_arr) :
         \E len \in ChunkLengths(request_arr[i]) : Alt_ChunkResponse(i, len)
    \/ \E id \in 1 .. MaxTimers : Map_tick(id)
    \/ \E i \in 0 .. MaxSteps : Map_slider(i)
    \/ \E f \in Floors : ChooseFloor(f)

SpecAlt == Init /\ [][NextAlt]_vars

\* Every request the network holds is eventually answered.
AltResponses ==
    \/ \E k \in 1 .. Len(calls) :
         \E response \in SummaryResponses(k, calls[k].simulation) :
           Alt_SummaryResponse(k, response)
    \/ \E j \in 1 .. Len(mapReqs) : Alt_MapResponse(j)
    \/ \E i \in 1 .. Len(request_arr) :
         \E len \in ChunkLengths(request_arr[i]) : Alt_ChunkResponse(i, len)

SpecAltLive == SpecAlt /\ WF_vars(AltResponses)

\* The same for the store of index.js: an outstanding request is
\* eventually answered.
Responses ==
    \/ \E k \in 1 .. Len(calls) :
         \E response \in SummaryResponses(k, calls[k].simulation) :
           SummaryResponse(k, response)
    \/ \E j \in 1 .. Len(mapReqs) : MapResponse(j)
    \/ \E i \in 1 .. Len(request_arr) :
         \E len \in ChunkLengths(request_arr[i]) : ChunkResponse(i, len)

SpecLive == Spec /\ WF_vars(Responses)

\* ================================================================ claims
Degenerate(response) ==
    response.wellFormed
    /\ (response.NumberOfAgents < 1 \/ response.TotalTimesteps < 0)

\* A step in which getTrajectoryData runs to its end.
TrajectoryCompletes ==
    /\ trajPc' = "done"
    /\ \/ Host_getTrajectoryData
       \/ \E i \in 1 .. Len(request_arr) :
            \/ ChunkFailure(i)
            \/ \E len \in ChunkLengths(request_arr[i]) : ChunkResponse(i, len)

\* C1: when a trajectory chunk request fails, getTrajectoryData finishes
\* with status = 'error', errorMessage = the underlying error and
\* trajectoryData = null.
C1_FailureEndsInError ==
    [][(\E i \in 1 .. Len(request_arr) : ChunkFailure(i))
        => /\ state'.status = "error"
           /\ state'.errorMessage = "Network Error"
           /\ state'.trajectoryData = Null]_vars

FramesOf(trajData, run) ==
    trajData # Null /\ \E p \in 1 .. Len(trajData[1]) : trajData[1][p][1] = run

\* C2: when the Visualizer's run id changes while the store holds the
\* previous run's map or trajectory, mapData and trajectoryData are
\* cleared and currentFloor is reset before a fetch for the new run is
\* dispatched, and the previous run's trajectory is not fed into the new
\* Map2D instance.
C2_RunSwitchIsolation ==
    [][(/\ \E r \in Runs : SimIdChange(r)
        /\ state.mapData # Null
        /\ FramesOf(state.trajectoryData, simId))
        => /\ state'.mapData = Null
           /\ state'.trajectoryData = Null
           /\ state'.currentFloor = "null"
           /\ mapInstance' # Null
                => ~FramesOf(mapInstance'[1].trajectories, simId)]_vars

\* The frames of a trajectory are in strictly ascending timestep order.
Ascending(trajs) ==
    \A p, q \in 1 .. Len(trajs) : p < q => trajs[p][2] < trajs[q][2]

RECURSIVE SumLen(_, _)
SumLen(reqs, i) ==
    IF i > Len(reqs) THEN 0 ELSE Len(reqs[i].data) + SumLen(reqs, i + 1)

\* C3: all chunk requests are issued before any is awaited, and for every
\* arrival order of the responses the committed trajectoryData is the
\* concatenation of the chunk payloads in ascending request-offset order:
\* it holds every delivered frame once, in ascending timestep order.
C3_ChunksJoinedInRequestOrder ==
    [][/\ (Host_getTrajectoryData /\ trajPc' = "awaiting")
           => \A i \in 1 .. Len(request_arr') : request_arr'[i].pc = "pending"
       /\ (TrajectoryCompletes /\ trajOutcome' = "resolved")
           => /\ state'.trajectoryData # Null
              /\ Len(state'.trajectoryData[1]) = SumLen(request_arr', 1)
              /\ Ascending(state'.trajectoryData[1])
              /\ \A i \in 1 .. Len(request_arr') :
                   \A p \in 1 .. Len(request_arr'[i].data) :
                     \E q \in 1 .. Len(state'.trajectoryData[1]) :
                       state'.trajectoryData[1][q] = request_arr'[i].data[p]]_vars

C3_Witness ==
    /\ trajPc = "done"
    /\ trajOutcome = "resolved"
    /\ Len(request_arr) >= 2
    /\ request_arr[2].arrivedAt < request_arr[1].arrivedAt
    /\ Len(request_arr[1].data) > 0
    /\ Len(request_arr[2].data) > 0
    /\ state.trajectoryData = Some(request_arr[1].data \o request_arr[2].data)

\* C4 as stated: two calls of getSummary for the same run id issue one
\* network request between them, and the second resolves with the object
\* the first resolved with.
C4_TwoCallsOneRequest ==
    \A k1, k2 \in 1 .. Len(calls) :
        (k1 < k2 /\ calls[k1].simulation = calls[k2].simulation)
        => /\ ~(calls[k1].net /\ calls[k2].net)
           /\ (calls[k1].pc = "resolved" /\ calls[k2].pc = "resolved")
                => calls[k1].resp = calls[k2].resp

CallsFor(r) == {k \in 1 .. Len(calls) : calls[k].simulation = r}

\* C4 amended: a second call of getSummary for a run id, made after the
\* first call's response has arrived, issues no network request (one in
\* total) and resolves with the identical response object.
C4_SecondCallAfterResponse ==
    [][\A r \in Runs : \A k1 \in 1 .. Len(calls) :
        (/\ Len(calls') = Len(calls) + 1
         /\ calls'[Len(calls')].simulation = r
         /\ CallsFor(r) = {k1}
         /\ calls[k1].pc = "resolved")
        => /\ ~calls'[Len(calls')].net
           /\ calls'[Len(calls')].pc = "resolved"
           /\ calls'[Len(calls')].resp = calls[k1].resp
           /\ calls[k1].net]_vars

C4_Witness ==
    \E k1, k2 \in 1 .. Len(calls) :
        /\ k1 < k2
        /\ calls[k1].simulation = calls[k2].simulation
        /\ calls[k1].net
        /\ ~calls[k2].net
        /\ calls[k2].pc = "resolved"
        /\ calls[k2].resp = calls[k1].resp

\* C5: when the summary reports no agents or a negative step count, status
\* becomes 'error' with 'Number of agents or total steps is zero.', and
\* that is the status once the summary and the base map responses of the
\* fetch have been processed.
C5_DegenerateSummaryEndsInError ==
    [][/\ \A k \in 1 .. Len(calls) :
            \A response \in SummaryResponses(k, calls[k].simulation) :
              (SummaryResponse(k, response) /\ calls[k].then = "store"
                 /\ Degenerate(response))
              => /\ state'.status = "error"
                 /\ state'.errorMessage = "Number of agents or total steps is zero."
       /\ \A j \in 1 .. Len(mapReqs) :
            ((MapResponse(j) \/ MapFailure(j))
               /\ Degenerate(calls[mapReqs[j].call].resp[1]))
            => /\ state'.status = "error"
               /\ state'.errorMessage = "Number of agents or total steps is zero."]_vars

\* C6: when the summary request of fetchSimulationData fails (it rejects
\* or its reaction throws), status becomes 'error' with 'Unable to fetch
\* data.'.
C6_SummaryFailureSetsError ==
    [][\A k \in 1 .. Len(calls) :
        (/\ calls[k].then = "store"
         /\ \/ SummaryFailure(k)
            \/ \E response \in SummaryResponses(k, calls[k].simulation) :
                 SummaryResponse(k, response) /\ ~response.wellFormed)
        => /\ state'.status = "error"
           /\ state'.errorMessage = "Unable to fetch data."]_vars

\* C7: in every reachable state of the store, errorMessage is non-null
\* only if status = 'error'.
C7_ErrorMessageOnlyWithErrorStatus ==
    state.errorMessage # "null" => state.status = "error"

\* C8: for nAgents >= 1 and totalSteps >= 0, getTrajectoryData issues one
\* getTrajectory request for each offset k*chunk < totalSteps, with
\* chunk = ceil(100000000 / nAgents) and max_steps = chunk, none at an
\* offset that reaches totalSteps, and the loop ends.
C8_OneRequestPerChunk ==
    [][(/\ Host_getTrajectoryData
        /\ state.nAgents # Null /\ state.totalSteps # Null
        /\ ToNumber(state.nAgents) >= 1 /\ ToNumber(state.totalSteps) >= 0)
        => LET chunk == -((-ChunkBudget) \div state.nAgents[1]) IN
             /\ chunk * state.nAgents[1] >= ChunkBudget
             /\ (chunk - 1) * state.nAgents[1] < ChunkBudget
             /\ \A i \in 1 .. Len(request_arr') :
                  /\ request_arr'[i].first_timestep = (i - 1) * chunk
                  /\ request_arr'[i].first_timestep < state.totalSteps[1]
                  /\ request_arr'[i].max_steps = Some(chunk)
                  /\ request_arr'[i].simulation = state.currentSimID
             /\ Len(request_arr') * chunk >= state.totalSteps[1]]_vars

C8_Witness ==
    /\ trajPc = "awaiting"
    /\ Len(request_arr) = 2
    /\ state.nAgents = Some(50000000)
    /\ request_arr[1].first_timestep = 0
    /\ request_arr[2].first_timestep = 2
    /\ \A i \in 1 .. 2 : request_arr[i].max_steps = Some(2)

\* C9: after getTrajectoryData completes successfully, totalSteps equals
\* the length of the committed trajectoryData, whatever the sizes of the
\* chunk payloads.
C9_TotalStepsIsTrajectoryLength ==
    [][(TrajectoryCompletes /\ trajOutcome' = "resolved")
        => /\ state'.trajectoryData # Null
           /\ state'.totalSteps = Some(Len(state'.trajectoryData[1]))]_vars

C9_Witness ==
    /\ trajPc = "done"
    /\ trajOutcome = "resolved"
    /\ \E i \in 1 .. Len(request_arr) :
         /\ request_arr[i].max_steps # Infinity
         /\ Len(request_arr[i].data) < request_arr[i].max_steps[1]
    /\ state.trajectoryData # Null
    /\ Len(state.trajectoryData[1]) > 0
    /\ state.totalSteps = Some(Len(state.trajectoryData[1]))
    /\ state.totalSteps = Some(SumLen(request_arr, 1))

\* C10: for one Map2D instance, after any sequence of startAnimation,
\* stopAnimation, setSpeed, restartAnimation and setFloor calls at most one
\* animation interval timer is active, and it is the one the instance
\* holds the handle of.
C10_AtMostOneTimer ==
    mapInstance # Null
    => /\ Cardinality(mapInstance[1].timers) <= 1
       /\ mapInstance[1].timers # {}
            => mapInstance[1].animationIntervalID # Null
               /\ mapInstance[1].timers = {mapInstance[1].animationIntervalID[1]}

C10_Witness ==
    /\ mapInstance # Null
    /\ mapInstance[1].nextTimer > 2
    /\ Cardinality(mapInstance[1].timers) = 1
    /\ mapInstance[1].animationInterval = 100

\* ------------------------------------------------------------------ Home
\* The entries of the run list the backend's /list returns: run i of a list
\* has RunID i.
Facilities == {"f1", "f2"}
PolicyHashes == {"h1", "h2"}

RunLists ==
    UNION {[1 .. n -> [FacilityName : Facilities, SimulationHash : PolicyHashes]] :
              n \in 0 .. MaxRuns}

\* pushUniqueFacilities(item): no facility of that name is in the list yet.
pushUniqueFacilities(facilities, item) ==
    \A i \in 1 .. Len(facilities) : facilities[i].facilityName # item

\* pushUniquePolicies(facility, item)
pushUniquePolicies(facility, item) ==
    \A i \in 1 .. Len(facility.policies) :
        facility.policies[i].policyHash # item

\* The body of facility.policies.forEach for one policy entry pol.
PushRun(pol, policy, runID) ==
    IF policy.SimulationHash = pol.policyHash
    THEN [pol EXCEPT !.simulationRuns = Append(@, runID)]
    ELSE pol

\* The body of overviewData.facilities.forEach for one facility.
VisitFacility(facility, policy, runID) ==
    LET f1 == IF /\ facility.facilityName = policy.FacilityName
                 /\ pushUniquePolicies(facility, policy.SimulationHash)
              THEN [facility EXCEPT !.policies =
                       Append(@, [policyHash |-> policy.SimulationHash,
                                  simulationRuns |-> <<>>])]
              ELSE facility
    IN  [f1 EXCEPT !.policies =
            [i \in 1 .. Len(f1.policies) |->
                PushRun(f1.policies[i], policy, runID)]]

\* The body of policyList.forEach for the entry with RunID runID.
VisitPolicy(facilities, policy, runID) ==
    LET fs == IF pushUniqueFacilities(facilities, policy.FacilityName)
              THEN Append(facilities,
                          [facilityName |-> policy.FacilityName,
                           policies |-> <<[policyHash |-> policy.SimulationHash,
                                           simulationRuns |-> <<>>]>>])
              ELSE facilities
    IN  [i \in 1 .. Len(fs) |-> VisitFacility(fs[i], policy, runID)]

\* getOverviewData() over the first n entries of policyList.
RECURSIVE getOverviewData(_, _)
getOverviewData(policyList, n) ==
    IF n = 0 THEN <<>>
    ELSE VisitPolicy(getOverviewData(policyList, n - 1), policyList[n], n)

\* The runName of the run with id runID, one name per run.
RunName(runID) == <<"run", runID>>

\* setDefaultValues(facilities) (Home.vue 134-150)
setDefaultValues(h, facilities) ==
    IF Len(facilities) > 0
    THEN LET policies == facilities[1].policies
             simRuns == policies[1].simulationRuns
         IN  [h EXCEPT !.policies = policies,
                       !.simRuns = simRuns,
                       !.selectedFacility = facilities[1].facilityName,
                       !.selectedSimulation = policies[1].policyHash,
                       !.polHash = policies[1].policyHash,
                       !.selectedRun = Some(RunName(simRuns[1])),
                       !.runId = Some(simRuns[1])]
    ELSE h

\* Array.prototype.find: the first entry of seq that satisfies Test.
Find(seq, Test(_)) ==
    seq[CHOOSE i \in 1 .. Len(seq) :
          Test(seq[i]) /\ \A j \in 1 .. i - 1 : ~Test(seq[j])]

\* updatePolicyData() (155-168)
updatePolicyData(h) ==
    LET IsSelected(item) == item.facilityName = h.selectedFacility
        policies == Find(h.facilities, IsSelected).policies
    IN  [h EXCEPT !.policies = policies,
                  !.selectedSimulation = policies[1].policyHash,
                  !.simRuns = policies[1].simulationRuns,
                  !.polHash = policies[1].policyHash,
                  !.runId = Some(policies[1].simulationRuns[1])]

\* updateRunData() (171-185)
updateRunData(h) ==
    LET IsSelected(item) == item.policyHash = h.selectedSimulation
        simRuns == Find(h.policies, IsSelected).simulationRuns
    IN  [h EXCEPT !.simRuns = simRuns,
                  !.selectedRun = Some(RunName(simRuns[1])),
                  !.runId = Some(simRuns[1]),
                  !.polHash = h.selectedSimulation]

\* runSimulation(event) (188-194) with event.target.selectedIndex = idx - 1
runSimulation(h, idx) == [h EXCEPT !.runId = Some(h.simRuns[idx])]

\* The last reaction of fetchData (210-225): getOverviewData(), then
\* setDefaultValues(this.overviewData.facilities).
Home_getOverviewData ==
    /\ home.pc = "idle"
    /\ LET facilities == getOverviewData(home.policyList, Len(home.policyList))
       IN  home' = setDefaultValues([home EXCEPT !.facilities = facilities,
                                                 !.pc = "built"],
                                    facilities)
    /\ UNCHANGED <<appVars, loader, pairChart, statcards, heatmap, engine>>

\* The operator picks another facility: v-model writes selectedFacility,
\* then the change handler runs.
Home_updatePolicyData(i) ==
    /\ home.pc = "built"
    /\ home.facilities[i].facilityName # home.selectedFacility
    /\ home' = updatePolicyData(
                  [home EXCEPT !.selectedFacility = home.facilities[i].facilityName])
    /\ UNCHANGED <<appVars, loader, pairChart, statcards, heatmap, engine>>

\* The operator picks another policy of the list shown.
Home_updateRunData(i) ==
    /\ home.pc = "built"
    /\ home.policies[i].policyHash # home.selectedSimulation
    /\ home' = updateRunData(
                  [home EXCEPT !.selectedSimulation = home.policies[i].policyHash])
    /\ UNCHANGED <<appVars, loader, pairChart, statcards, heatmap, engine>>

\* The operator picks another run of the list shown: v-model writes the
\* option's text to selectedRun.
Home_runSimulation(idx) ==
    /\ home.pc = "built"
    /\ Some(RunName(home.simRuns[idx])) # home.selectedRun
    /\ home' = runSimulation(
                  [home EXCEPT !.selectedRun = Some(RunName(home.simRuns[idx]))],
                  idx)
    /\ UNCHANGED <<appVars, loader, pairChart, statcards, heatmap, engine>>

InitHome ==
    /\ AppIdle
    /\ LoaderIdle
    /\ PairChartIdle
    /\ StatcardsIdle
    /\ HeatmapIdle
    /\ EngineIdle
    /\ \E l \in RunLists : home = HomeData(l)

NextHome ==
    \/ Home_getOverviewData
    \/ \E i \in 1 .. Len(home.facilities) : Home_updatePolicyData(i)
    \/ \E i \in 1 .. Len(home.policies) : Home_updateRunData(i)
    \/ \E idx \in 1 .. Len(home.simRuns) : Home_runSimulation(idx)

SpecHome == InitHome /\ [][NextHome]_vars

\* ---------------------------------------------------------------- Loader
\* JavaScript's a % b for b > 0: the remainder has the sign of a.
JsRem(a, b) == IF a >= 0 THEN a % b ELSE -((-a) % b)

\* The text startCountdown and its timer write for a duration of d units:
\* Math.floor(duration / 60) + " min " + Math.floor(duration % 60) + " sec left"
CountdownText(d) ==
    [kind |-> "left",
     minutes |-> d \div (60 * Resolution),
     seconds |-> JsRem(d, 60 * Resolution) \div Resolution]

Finalizing == [kind |-> "finalizing", minutes |-> 0, seconds |-> 0]

\* The durations the Visualizer passes: the estimate
\* totalSteps * nAgents / 160000, or the estimate minus the elapsed time.
Durations == (-(MaxElapsed * Resolution)) .. (MaxCountdown * Resolution)

Loader_startCountdown(d) ==
    /\ loader.countdown = "none"
    /\ loader' = [loader EXCEPT !.countdown = "running", !.duration = d,
                                !.innerText = CountdownText(d)]
    /\ UNCHANGED <<appVars, home, pairChart, statcards, heatmap, engine>>

\* The interval callback of startCountdown, once per second.
Loader_tick ==
    /\ loader.countdown = "running"
    /\ loader' = IF loader.duration > 0
                 THEN [loader EXCEPT
                         !.duration = @ - Resolution,
                         !.innerText = CountdownText(loader.duration - Resolution)]
                 ELSE [loader EXCEPT !.innerText = Finalizing]
    /\ UNCHANGED <<appVars, home, pairChart, statcards, heatmap, engine>>

Loader_stopCountdown ==
    /\ loader.countdown = "running"
    /\ loader' = [loader EXCEPT !.countdown = "cleared"]
    /\ UNCHANGED <<appVars, home, pairChart, statcards, heatmap, engine>>

\* _setComplete(node), _setError(node) and the body of _reset's forEach,
\* on the class list of a spinner.
setComplete(classList) == (classList \ {"loader"}) \cup {"loaded"}
setError(classList) == (classList \ {"loader"}) \cup {"loader-error"}
resetElem(classList) == (classList \ {"loaded", "error"}) \cup {"loader"}

Loader_show ==
    /\ loader' = [loader EXCEPT !.display = "inline",
                                !.trajectoryElem = resetElem(@),
                                !.mapElem = resetElem(@)]
    /\ UNCHANGED <<appVars, home, pairChart, statcards, heatmap, engine>>

Loader_hide ==
    /\ loader' = [loader EXCEPT !.display = "none"]
    /\ UNCHANGED <<appVars, home, pairChart, statcards, heatmap, engine>>

Loader_trajectoryLoaded ==
    /\ loader' = [loader EXCEPT !.trajectoryElem = setComplete(@)]
    /\ UNCHANGED <<appVars, home, pairChart, statcards, heatmap, engine>>

Loader_mapLoaded ==
    /\ loader' = [loader EXCEPT !.mapElem = setComplete(@)]
    /\ UNCHANGED <<appVars, home, pairChart, statcards, heatmap, engine>>

\* showError(message), with a message or without one.
Loader_showError(withMessage) ==
    /\ loader' = [loader EXCEPT
                     !.trajectoryElem = setError(@),
                     !.innerText = IF withMessage
                                   THEN [kind |-> "message", minutes |-> 0,
                                         seconds |-> 0]
                                   ELSE @]
    /\ UNCHANGED <<appVars, home, pairChart, statcards, heatmap, engine>>

InitLoader == AppIdle /\ UiIdle

NextLoader ==
    \/ \E d \in Durations : Loader_startCountdown(d)
    \/ Loader_tick
    \/ Loader_stopCountdown
    \/ Loader_show
    \/ Loader_hide
    \/ Loader_trajectoryLoaded
    \/ Loader_mapLoaded
    \/ \E withMessage \in BOOLEAN : Loader_showError(withMessage)

SpecLoader == InitLoader /\ [][NextLoader]_vars

\* ------------------------------------------------------------ PolicyList
Agents == {"a", "b", "c"}

\* The rows of a /pair response: N_Contacts is a number,
\* TotalContactDuration a decimal string.
PairRows ==
    [Agent1 : Agents, Agent2 : Agents, N_Contacts : {0, 1, 3},
     TotalContactDuration : {"2", "9"}]

PairLists == UNION {[1 .. n -> PairRows] : n \in 0 .. MaxRows}

\* parseFloat of a one-digit decimal string.
DigitStrings == <<"0", "1", "2", "3", "4", "5", "6", "7", "8", "9">>
parseFloat(str) == (CHOOSE i \in 1 .. 10 : DigitStrings[i] = str) - 1

\* _.union(_.map(data, 'Agent1'), _.map(data, 'Agent2')): the agents in
\* order of first appearance, Agent1 column first.
RECURSIVE Uniq(_, _)
Uniq(seq, acc) ==
    IF seq = <<>> THEN acc
    ELSE Uniq(Tail(seq),
              IF \E i \in 1 .. Len(acc) : acc[i] = Head(seq) THEN acc
              ELSE Append(acc, Head(seq)))

AgentUnion(data) ==
    Uniq([i \in 1 .. Len(data) |-> data[i].Agent1]
           \o [i \in 1 .. Len(data) |-> data[i].Agent2], <<>>)

\* _.sumBy over the rows from i on that mention agent.
RECURSIVE SumContacts(_, _, _)
SumContacts(data, agent, i) ==
    IF i > Len(data) THEN 0
    ELSE (IF data[i].Agent1 = agent \/ data[i].Agent2 = agent
          THEN data[i].N_Contacts ELSE 0) + SumContacts(data, agent, i + 1)

RECURSIVE SumDuration(_, _, _)
SumDuration(data, agent, i) ==
    IF i > Len(data) THEN 0
    ELSE (IF data[i].Agent1 = agent \/ data[i].Agent2 = agent
          THEN parseFloat(data[i].TotalContactDuration) ELSE 0)
         + SumDuration(data, agent, i + 1)

\* (total / n).toPrecision(2) for integers total >= 0, n >= 0: the string
\* as its two significant digits and the power of ten of the last one
\* ("2.8" is digits 28, exp -1), or NaN (0/0) or Infinity (total/0). A tie
\* is rounded up; in this range every tie is a binary fraction, so the
\* floating-point quotient is the exact one there.
ToPrecision2_Truncated(total, n) ==
    IF n = 0 THEN [kind |-> IF total = 0 THEN "NaN" ELSE "Infinity",
                   digits |-> 0, exp |-> 0]
    ELSE IF total = 0 THEN [kind |-> "number", digits |-> 0, exp |-> -1]
    ELSE LET e == CHOOSE k \in -3 .. 3 :
                     /\ n * 10 ^ (k + 3) <= total * 1000
                     /\ total * 1000 < n * 10 ^ (k + 4)
         IN  [kind |-> "number",
              digits |-> (total * 10 ^ (4 - e)) \div (n * 1000),
              exp |-> e - 1]

ToPrecision2(total, n) ==
    IF n = 0 THEN [kind |-> IF total = 0 THEN "NaN" ELSE "Infinity",
                   digits |-> 0, exp |-> 0]
    ELSE IF total = 0 THEN [kind |-> "number", digits |-> 0, exp |-> -1]
    ELSE LET e == CHOOSE k \in -3 .. 3 :
                     /\ n * 10 ^ (k + 3) <= total * 1000
                     /\ total * 1000 < n * 10 ^ (k + 4)
             d == (2 * total * 10 ^ (4 - e) + n * 1000) \div (2 * n * 1000)
         IN  IF d = 100 THEN [kind |-> "number", digits |-> 10, exp |-> e]
             ELSE [kind |-> "number", digits |-> d, exp |-> e - 1]

\* The metric getPairContacts derives for one agent.
AgentMetric(data, agent) ==
    LET totalContactsPerAgent == SumContacts(data, agent, 1)
    IN  [a |-> agent, x |-> totalContactsPerAgent,
         y |-> ToPrecision2(SumDuration(data, agent, 1), totalContactsPerAgent)]

\* The reaction of getPairContacts to the /pair response.
getPairContacts ==
    /\ pairChart.pc = "idle"
    /\ pairChart' =
         [pairChart EXCEPT
            !.chartData = LET agents == AgentUnion(pairChart.data)
                          IN  [i \in 1 .. Len(agents) |->
                                  AgentMetric(pairChart.data, agents[i])],
            !.pc = "charted"]
    /\ UNCHANGED <<appVars, home, loader, statcards, heatmap, engine>>

InitPairChart ==
    /\ AppIdle
    /\ HomeIdle
    /\ LoaderIdle
    /\ StatcardsIdle
    /\ HeatmapIdle
    /\ EngineIdle
    /\ \E l \in PairLists : pairChart = [data |-> l, chartData |-> <<>>,
                                          pc |-> "idle"]

NextPairChart == getPairContacts

SpecPairChart == InitPairChart /\ [][NextPairChart]_vars

\* ------------------------------------------------------------- Statcards
\* A statistic's name is the sequence of the words that "_" separates in
\* it, a card's title the sequence of the words that " " separates.
\* toUpper(w): the first character in upper case.
toUpper(w) ==
    CASE w = "avg" -> "Avg"
      [] w = "n" -> "N"
      [] w = "total" -> "Total"
      [] w = "minutes" -> "Minutes"
      [] OTHER -> w

StatItems ==
    {[name |-> <<"avg", "n">>, value |-> 504, unit |-> ""],
     [name |-> <<"total">>, value |-> 1130, unit |-> "minutes"]}

StatLists == UNION {[1 .. n -> StatItems] : n \in 0 .. MaxCards}

\* const bgStyles = ['primary', 'warning', 'success', 'danger']; bgStyles[i]
\* for the 0-based index i, undefined past the end.
bgStyles_Shifted(i) ==
    IF i < 3 THEN <<"warning", "success", "danger">>[i + 1] ELSE "primary"

bgStyles(i) ==
    IF i < 4 THEN <<"primary", "warning", "success", "danger">>[i + 1]
    ELSE "undefined"

\* The callback of response.data.map for statCard at 0-based index i; the
\* style is the class "bg-" + bgStyles[i].
StatCard(statCard, i) ==
    [name |-> [j \in 1 .. Len(statCard.name) |-> toUpper(statCard.name[j])],
     value |-> statCard.value,
     unit |-> toUpper(statCard.unit),
     style |-> <<"bg-", bgStyles(i)>>]

\* getStatCard(): empty the list, request the statistics of simid.
getStatCard(c) ==
    [c EXCEPT !.cardsData = <<>>,
              !.requests = Append(@, [simid |-> c.simid, pc |-> "pending"])]

Statcards_mounted(r) ==
    /\ ~statcards.mounted
    /\ statcards' = getStatCard([statcards EXCEPT !.mounted = TRUE, !.simid = r])
    /\ UNCHANGED <<appVars, home, loader, pairChart, heatmap, engine>>

\* watch.simid: the parent changes the prop to r.
Statcards_simid(r) ==
    /\ statcards.mounted
    /\ r # statcards.simid
    /\ Len(statcards.requests) < MaxFetches
    /\ statcards' = getStatCard([statcards EXCEPT !.simid = r])
    /\ UNCHANGED <<appVars, home, loader, pairChart, heatmap, engine>>

\* The response to request k arrives with the list data.
Statcards_response(k, data) ==
    /\ statcards.requests[k].pc = "pending"
    /\ statcards' =
         [statcards EXCEPT
            !.cardsData = [i \in 1 .. Len(data) |-> StatCard(data[i], i - 1)],
            !.requests[k].pc = "done",
            !.response = data]
    /\ UNCHANGED <<appVars, home, loader, pairChart, heatmap, engine>>

\* Request k fails: the catch logs the error.
Statcards_failure(k) ==
    /\ statcards.requests[k].pc = "pending"
    /\ statcards' = [statcards EXCEPT !.requests[k].pc = "failed"]
    /\ UNCHANGED <<appVars, home, loader, pairChart, heatmap, engine>>

InitStatcards == AppIdle /\ UiIdle

NextStatcards ==
    \/ \E r \in Runs : Statcards_mounted(r)
    \/ \E r \in Runs : Statcards_simid(r)
    \/ \E k \in 1 .. Len(statcards.requests) :
         \E data \in StatLists : Statcards_response(k, data)
    \/ \E k \in 1 .. Len(statcards.requests) : Statcards_failure(k)

SpecStatcards == InitStatcards /\ [][NextStatcards]_vars

\* --------------------------------------------------------------- Heatmap
Pixels == (0 .. CanvasWidth - 1) \X (0 .. CanvasHeight - 1)

\* The pan/zoom transforms of the context: a scale and a translation.
Transforms == [scale : {1, 2}, dx : -1 .. 1, dy : -1 .. 1]

\* The canvas pixels the rectangle (x, y, w, h) covers under transform t.
Covered(t, x, y, w, h) ==
    {p \in Pixels : /\ t.scale * x + t.dx <= p[1]
                    /\ p[1] < t.scale * (x + w) + t.dx
                    /\ t.scale * y + t.dy <= p[2]
                    /\ p[2] < t.scale * (y + h) + t.dy}

\* The 2d context's save, setTransform, clearRect and restore.
ctx_save(h) == [h EXCEPT !.stack = Append(@, h.transform)]
ctx_setTransform(h, t) == [h EXCEPT !.transform = t]
ctx_clearRect(h, x, y, w, hgt) ==
    [h EXCEPT !.painted = @ \ Covered(h.transform, x, y, w, hgt)]
ctx_restore(h) ==
    IF h.stack = <<>> THEN h
    ELSE [h EXCEPT !.transform = h.stack[Len(h.stack)],
                   !.stack = SubSeq(h.stack, 1, Len(h.stack) - 1)]

\* Heatmap.clear()
clear_NoIdentity(h) ==
    ctx_restore(ctx_clearRect(ctx_save(h), 0, 0, CanvasWidth, CanvasHeight))

clear(h) ==
    ctx_restore(
      ctx_clearRect(ctx_setTransform(ctx_save(h), IdentityTransform),
                    0, 0, CanvasWidth, CanvasHeight))

Heatmap_clear ==
    /\ heatmap.clears < MaxClears
    /\ heatmap' = [clear(heatmap) EXCEPT !.clears = heatmap.clears + 1]
    /\ UNCHANGED <<appVars, home, loader, pairChart, statcards, engine>>

\* drawImage(img, 0, 0) of the map image or the heat layer's draw() leaves
\* the pixels ps painted.
Heatmap_draw(ps) ==
    /\ ps # {}
    /\ heatmap' = [heatmap EXCEPT !.painted = @ \cup ps, !.clears = 0]
    /\ UNCHANGED <<appVars, home, loader, pairChart, statcards, engine>>

\* Panning or zooming sets the context's transform to t.
Heatmap_transform(t) ==
    /\ t # heatmap.transform
    /\ heatmap' = [ctx_setTransform(heatmap, t) EXCEPT !.clears = 0]
    /\ UNCHANGED <<appVars, home, loader, pairChart, statcards, engine>>

InitHeatmap == AppIdle /\ UiIdle

NextHeatmap ==
    \/ Heatmap_clear
    \/ \E ps \in SUBSET Pixels : Heatmap_draw(ps)
    \/ \E t \in Transforms : Heatmap_transform(t)

SpecHeatmap == InitHeatmap /\ [][NextHeatmap]_vars

\* ------------------------------------------- Map2D that loads its own data
\* The two versions of the engine whose reloadSimulation issues the
\* requests itself.
Versions == {"part_005", "part_007"}

\* The requests one reloadSimulation call issues, and those whose promises
\* its Promise.all waits for. In part_005 the trajectory is requested by
\* getTrajectoryData(), which is called without await: nAgents is null
\* there, max_chunk_size is Infinity and the loop pushes one request.
Kinds(version) ==
    IF version = "part_005" THEN {"summary", "map", "chunk"}
    ELSE {"summary", "contactDist", "contacts", "trajectories", "map"}

Awaited(version) ==
    IF version = "part_005" THEN {"summary", "map"}
    ELSE {"summary", "contactDist", "contacts", "trajectories", "map"}

\* reloadSimulation() up to its await (part_005 146-177, part_007 108-160).
Engine_reloadSimulation(e) ==
    LET m1 == Map2D_showLoader(Map2D_reloadSimulation(e.m))
        m2 == IF e.version = "part_005"
              THEN Map2D_setTrajectoryData(m1, Some(<<>>))
              ELSE m1
    IN  [e EXCEPT !.m = m2,
                  !.loads = Append(@, [pending |-> Kinds(e.version),
                                       max_count |-> <<>>])]

\* The reaction of Promise.all(request_arr) in getTrajectoryData of
\* part_005 (121-129) to the one chunk with data frames: the first pass of
\* forEach concatenates the frames, then reads response.data.max_count on
\* the array of responses, where response.data is undefined: the TypeError
\* rejects the awaited promise and lines 130-138 are never reached.
Engine_chunksArrived(e, frames) ==
    [e EXCEPT !.m.trajectories = Some(e.m.trajectories[1] \o frames)]

\* The reaction to the trajectory response in part_007 (133-140).
Engine_trajectoriesArrived(e, frames, max_contacts) ==
    [e EXCEPT !.m.trajectories = Some(frames),
              !.domain = <<0, max_contacts>>]

\* The statements after await Promise.all([...]) (part_007 162-166); in
\* part_005 only return this follows (172-177).
Engine_allArrived(e) ==
    IF e.version = "part_005" THEN e
    ELSE [e EXCEPT !.m = Map2D_startAnimation(Map2D_hideLoader(@))]

\* setSimulation(sim_id) and setFloor(floor)
Engine_setSimulation(r) ==
    /\ ~engine.m.destroyed
    /\ Len(engine.loads) < MaxReloads
    /\ r # engine.simulation
    /\ engine' = Engine_reloadSimulation([engine EXCEPT !.simulation = r])
    /\ UNCHANGED <<appVars, home, loader, pairChart, statcards, heatmap>>

Engine_setFloor(f) ==
    /\ ~engine.m.destroyed
    /\ Len(engine.loads) < MaxReloads
    /\ engine' = Engine_reloadSimulation([engine EXCEPT !.m.floor = f])
    /\ UNCHANGED <<appVars, home, loader, pairChart, statcards, heatmap>>

\* The response to the request of the given kind of reloadSimulation call l
\* arrives; a trajectory response carries n frames and the largest contact
\* count c. When it is the last one Promise.all waits for, the call runs to
\* its end within the same task.
Engine_response(l, kind, n, c) ==
    /\ kind \in engine.loads[l].pending
    /\ kind \in {"trajectories", "chunk"} \/ (n = 1 /\ c = 0)
    /\ LET frames == [i \in 1 .. n |-> <<engine.simulation, i - 1>>]
           e1 == [engine EXCEPT
                    !.loads[l].pending = @ \ {kind},
                    !.loads[l].max_count =
                        IF kind \in {"trajectories", "chunk"}
                        THEN Append(@, c) ELSE @]
           e2 == IF kind = "chunk" THEN Engine_chunksArrived(e1, frames)
                 ELSE IF kind = "trajectories"
                 THEN Engine_trajectoriesArrived(e1, frames, c)
                 ELSE IF kind = "map" THEN [e1 EXCEPT !.m = Map2D_setMapData(@)]
                 ELSE e1
       IN  engine' = IF /\ kind \in Awaited(engine.version)
                        /\ e2.loads[l].pending \cap Awaited(engine.version) = {}
                     THEN Engine_allArrived(e2)
                     ELSE e2
    /\ UNCHANGED <<appVars, home, loader, pairChart, statcards, heatmap>>

\* Interval timer id of the instance fires.
Engine_tick(id) ==
    /\ id \in engine.m.timers
    /\ engine' = [engine EXCEPT !.m = Map2D_tick(Task(@))]
    /\ UNCHANGED <<appVars, home, loader, pairChart, statcards, heatmap>>

\* destroy() (part_005 229-237, part_007 218-226)
Engine_destroy ==
    /\ ~engine.m.destroyed
    /\ engine' = [engine EXCEPT !.m = Map2D_destroy(Task(@))]
    /\ UNCHANGED <<appVars, home, loader, pairChart, statcards, heatmap>>

InitEngine ==
    /\ AppIdle
    /\ HomeIdle /\ LoaderIdle /\ PairChartIdle /\ StatcardsIdle /\ HeatmapIdle
    /\ \E version \in Versions : engine = EngineNew(version)

NextEngine ==
    \/ \E r \in Runs : Engine_setSimulation(r)
    \/ \E f \in Floors : Engine_setFloor(f)
    \/ \E l \in 1 .. Len(engine.loads) :
         \E kind \in Kinds(engine.version) :
           \E n \in 1 .. MaxSteps - 1 : \E c \in 0 .. MaxCount :
             Engine_response(l, kind, n, c)
    \/ \E id \in 1 .. MaxReloads : Engine_tick(id)
    \/ Engine_destroy

SpecEngine == InitEngine /\ [][NextEngine]_vars

\* ----------------------------------------------------------------- claims
\* C16: the countdown text never shows a negative number of minutes or of
\* seconds, and shows "M min S sec left" only while time remains.
C16_CountdownNeverNegative ==
    loader.innerText.kind = "left"
      => /\ loader.innerText.minutes >= 0
         /\ loader.innerText.seconds >= 0
         /\ loader.duration >= 0

\* The (facility, policy) positions of the hierarchy under which run r is
\* listed, one per listing.
Listings(facilities, r) ==
    {<<i, j, k>> \in (1 .. MaxRuns + 1) \X (1 .. MaxRuns + 1) \X (1 .. MaxRuns + 1) :
        /\ i <= Len(facilities)
        /\ j <= Len(facilities[i].policies)
        /\ k <= Len(facilities[i].policies[j].simulationRuns)
        /\ facilities[i].policies[j].simulationRuns[k] = r}

\* C15: in the hierarchy getOverviewData built, facility names are unique,
\* policy hashes are unique within a facility, and every run of the list is
\* listed exactly once, under its own facility and policy hash.
C15_HierarchyPartitionsRuns ==
    home.pc = "built" =>
      LET fs == home.facilities
      IN  /\ \A i, j \in 1 .. Len(fs) :
                fs[i].facilityName = fs[j].facilityName => i = j
          /\ \A i \in 1 .. Len(fs) : \A j, k \in 1 .. Len(fs[i].policies) :
                fs[i].policies[j].policyHash = fs[i].policies[k].policyHash
                  => j = k
          /\ \A r \in 1 .. Len(home.policyList) :
                /\ Cardinality(Listings(fs, r)) = 1
                /\ \A p \in Listings(fs, r) :
                      /\ fs[p[1]].facilityName = home.policyList[r].FacilityName
                      /\ fs[p[1]].policies[p[2]].policyHash
                           = home.policyList[r].SimulationHash

\* C11: with a trajectory of N >= 1 frames, every update() a timer tick
\* triggers reads a frame index in 0 .. N-1, and on the tick whose
\* increment reaches N the index is back at 0 with the contact markers of
\* the earlier frames removed.
C11_TickWrapsAround ==
    [][\A id \in 1 .. MaxTimers :
         (/\ Map_tick(id)
          /\ mapInstance[1].trajectories # Null
          /\ Len(mapInstance[1].trajectories[1]) >= 1)
         => LET N == Len(mapInstance[1].trajectories[1])
                m == mapInstance'[1]
            IN  /\ Len(m.frameLog) >= 1
                /\ \A i \in 1 .. Len(m.frameLog) :
                       /\ m.frameLog[i] # Null
                       /\ m.frameLog[i][1] \in 0 .. N - 1
                /\ ToNumber(mapInstance[1].currentStep) + 1 >= N
                     => /\ m.currentStep = Some(0)
                        /\ m.markers \subseteq {0}]_vars

\* A tick has just wrapped a trajectory of two or more frames whose earlier
\* contact markers were drawn.
C11_Witness ==
    /\ mapInstance # Null
    /\ mapInstance[1].drawsContacts
    /\ mapInstance[1].trajectories # Null
    /\ Len(mapInstance[1].trajectories[1]) >= 2
    /\ mapInstance[1].currentStep = Some(0)
    /\ Len(mapInstance[1].frameLog) = 2
    /\ mapInstance[1].markers = {0}
    /\ mapInstance[1].timers # {}

\* C12: in the store with status 'ready', whenever the status leaves
\* 'fetchingData' for 'ready' the mounted Visualizer holds a Map2D instance
\* with the trajectory pushed into it, the loader hidden and the animation
\* timer installed; and once map and trajectory are both in the store the
\* loader is hidden and the animation is running.
C12_ReadyStartsPlayback ==
    [][/\ (mounted /\ state.status = "fetchingData" /\ state'.status = "ready")
          => /\ mapInstance' # Null
             /\ mapInstance'[1].trajectories = state'.trajectoryData
             /\ ~mapInstance'[1].loaderShown
             /\ mapInstance'[1].animationIntervalID # Null
       /\ (mounted' /\ state'.status = "ready" /\ state'.mapData # Null
                    /\ state'.trajectoryData # Null)
          => /\ mapInstance' # Null
             /\ ~mapInstance'[1].loaderShown
             /\ mapInstance'[1].animationIntervalID # Null]_vars

C14_FloorChoiceReloads ==
    (mounted /\ mapInstance # Null /\ mapInstance[1].floor = "2")
    ~> (/\ \E j \in 1 .. Len(mapReqs) : mapReqs[j].floor = "2"
        /\ \E i \in 1 .. Len(request_arr) : request_arr[i].floor = "2")

\* C17: once a response is cached for a run id the entry is never replaced
\* or removed.
C17_CacheAppendOnly ==
    [][\A r \in Runs :
         summaryCache[r] # Null => summaryCache'[r] = summaryCache[r]]_vars

\* The rows of the example: a-b with 3 contacts lasting "9", a-c with 1
\* contact lasting "2".
ExampleRows ==
    <<[Agent1 |-> "a", Agent2 |-> "b", N_Contacts |-> 3,
       TotalContactDuration |-> "9"],
      [Agent1 |-> "a", Agent2 |-> "c", N_Contacts |-> 1,
       TotalContactDuration |-> "2"]>>

MetricsOf(agent) ==
    {i \in 1 .. Len(pairChart.chartData) : pairChart.chartData[i].a = agent}

Mentioned(agent) ==
    {i \in 1 .. Len(pairChart.data) :
        pairChart.data[i].Agent1 = agent \/ pairChart.data[i].Agent2 = agent}

\* One metric per mentioned agent, none for the others, with x the sum of
\* N_Contacts over the rows mentioning the agent.
OneMetricPerAgent ==
    \A agent \in Agents :
      /\ Cardinality(MetricsOf(agent)) = IF Mentioned(agent) = {} THEN 0 ELSE 1
      /\ \A i \in MetricsOf(agent) :
            pairChart.chartData[i].x = SumContacts(pairChart.data, agent, 1)

\* C18 as stated: y is the quotient itself, 2.75 for agent a of the
\* example.
C18_MetricIsExactQuotient ==
    pairChart.pc = "charted" =>
      /\ OneMetricPerAgent
      /\ \A i \in 1 .. Len(pairChart.chartData) :
            LET m == pairChart.chartData[i]
            IN  m.x > 0 =>
                  /\ m.y.kind = "number"
                  /\ m.y.digits * 10 ^ (m.y.exp + 2) * m.x
                       = 100 * SumDuration(pairChart.data, m.a, 1)

\* C18: one metric per mentioned agent with x the sum of N_Contacts, and
\* for x > 0 y is the quotient (sum of durations) / x to two significant
\* digits: within half a unit of the second digit of it. For the example
\* rows a: x = 4, y = 2.8; b: x = 3, y = 3.0; c: x = 1, y = 2.0.
C18_MetricIsRoundedQuotient ==
    pairChart.pc = "charted" =>
      /\ OneMetricPerAgent
      /\ \A i \in 1 .. Len(pairChart.chartData) :
            LET m == pairChart.chartData[i]
                total == SumDuration(pairChart.data, m.a, 1)
                unit == 10 ^ (m.y.exp + 2) * m.x
                diff == m.y.digits * unit - 100 * total
            IN  m.x > 0 =>
                  /\ m.y.kind = "number"
                  /\ m.y.digits \in 10 .. 99
                  /\ 2 * diff <= unit
                  /\ 2 * diff > -unit
      /\ pairChart.data = ExampleRows =>
            pairChart.chartData =
              <<[a |-> "a", x |-> 4,
                 y |-> [kind |-> "number", digits |-> 28, exp |-> -1]],
                [a |-> "b", x |-> 3,
                 y |-> [kind |-> "number", digits |-> 30, exp |-> -1]],
                [a |-> "c", x |-> 1,
                 y |-> [kind |-> "number", digits |-> 20, exp |-> -1]]>>

\* The example rows have been charted.
C18_Witness ==
    /\ pairChart.pc = "charted"
    /\ pairChart.data = ExampleRows
    /\ Len(pairChart.chartData) = 3

\* C19: when a statistics response arrives the card list has one card per
\* item in input order, card i showing item i's name, value and unit in
\* display form, the first four cards with the classes bg-primary,
\* bg-warning, bg-success, bg-danger; and when the run id changes the card
\* list is emptied in the same step that issues the new request.
C19_CardsFollowResponse ==
    [][/\ \A k \in 1 .. Len(statcards.requests) :
            (/\ statcards.requests[k].pc = "pending"
             /\ Len(statcards'.requests) = Len(statcards.requests)
             /\ statcards'.requests[k].pc = "done")
            => LET data == statcards'.response
                   cards == statcards'.cardsData
               IN  /\ Len(cards) = Len(data)
                   /\ \A i \in 1 .. Len(data) :
                         /\ cards[i].value = data[i].value
                         /\ Len(cards[i].name) = Len(data[i].name)
                         /\ \A j \in 1 .. Len(data[i].name) :
                               cards[i].name[j] = toUpper(data[i].name[j])
                         /\ cards[i].unit = toUpper(data[i].unit)
                   /\ Len(cards) >= 1 => cards[1].style = <<"bg-", "primary">>
                   /\ Len(cards) >= 2 => cards[2].style = <<"bg-", "warning">>
                   /\ Len(cards) >= 3 => cards[3].style = <<"bg-", "success">>
                   /\ Len(cards) >= 4 => cards[4].style = <<"bg-", "danger">>
       /\ (statcards.mounted /\ statcards'.simid # statcards.simid)
            => /\ statcards'.cardsData = <<>>
               /\ Len(statcards'.requests) = Len(statcards.requests) + 1
               /\ statcards'.requests[Len(statcards'.requests)]
                    = [simid |-> statcards'.simid, pc |-> "pending"]]_vars

\* Four cards are shown for the run id the component was switched to.
C19_Witness ==
    /\ Len(statcards.requests) = 2
    /\ statcards.requests[2].pc = "done"
    /\ statcards.requests[2].simid = statcards.simid
    /\ Len(statcards.cardsData) = 4
    /\ statcards.cardsData[1].name = <<"Avg", "N">>

\* C20: every clear(), the first of a run of calls or a later one, leaves
\* the whole canvas transparent and the context's transform and state
\* stack as they were before the call.
C20_ClearIsIdempotent ==
    [][Heatmap_clear
         => /\ heatmap'.painted = {}
            /\ heatmap'.transform = heatmap.transform
            /\ heatmap'.stack = heatmap.stack]_vars

\* clear() was called twice in a row under a scaled and translated
\* transform.
C20_Witness ==
    /\ heatmap.clears = 2
    /\ heatmap.transform = [scale |-> 2, dx |-> 1, dy |-> -1]
    /\ heatmap.painted = {}

\* C21: after show() neither spinner carries the completed class or the
\* error class, whatever was called before.
C21_ShowResetsIndicators ==
    [][Loader_show
         => /\ loader'.trajectoryElem \cap {"loaded", "loader-error"} = {}
            /\ loader'.mapElem \cap {"loaded", "loader-error"} = {}]_vars

\* C22: a response that arrives after the store's run id has moved away
\* from the run its request was issued for is committed all the same: the
\* summary's figures, the base map, and the joined trajectory.
LateSummaryCommitted ==
    \A k \in 1 .. Len(calls) :
      (/\ calls[k].pc = "pending" /\ calls'[k].pc = "resolved"
       /\ calls[k].then = "store"
       /\ calls[k].simulation # state.currentSimID
       /\ calls'[k].resp[1].wellFormed)
      => /\ state'.nAgents = Some(calls'[k].resp[1].NumberOfAgents)
         /\ state'.totalSteps = Some(calls'[k].resp[1].TotalTimesteps)

LateMapCommitted ==
    \A j \in 1 .. Len(mapReqs) :
      (/\ mapReqs[j].pc = "pending" /\ mapReqs'[j].pc = "done"
       /\ mapReqs[j].simulation # state.currentSimID)
      => /\ state'.mapData = Some([simulation |-> mapReqs[j].simulation,
                                   floor |-> mapReqs[j].floor])
         /\ state'.currentSimID = state.currentSimID

LateTrajectoryCommitted ==
    (/\ trajPc = "awaiting" /\ trajOutcome' = "resolved"
     /\ \E i \in 1 .. Len(request_arr) :
          request_arr[i].simulation # state.currentSimID)
    => /\ state'.trajectoryData = Some(JoinChunks(request_arr'))
       /\ state'.currentSimID = state.currentSimID

C22_LateResponsesCommitted ==
    [][LateSummaryCommitted /\ LateMapCommitted /\ LateTrajectoryCommitted]_vars

\* The store holds run A's base map and trajectory under run id B.
C22_Witness ==
    /\ state.currentSimID = "B"
    /\ state.mapData # Null /\ state.mapData[1].simulation = "A"
    /\ state.trajectoryData # Null /\ FramesOf(state.trajectoryData, "A")
    /\ Len(state.trajectoryData[1]) > 0

\* C23: when the store's status is 'error' and no trajectory is stored, a
\* run selection in the Visualizer (mounted, or a new simId) commits the
\* selected run id and dispatches fetchSimulationData.
C23_SelectionAfterErrorFetches ==
    [][(/\ state.status = "error" /\ state.trajectoryData = Null
        /\ mounted' /\ simId' # simId)
       => /\ state'.currentSimID = simId'
          /\ Len(calls') = Len(calls) + 1
          /\ state'.status # "error"]_vars

\* C24: with a trajectory of N >= 1 frames, every update() that a timer
\* tick or a move of the Timestep slider to a value in 0 .. N triggers reads
\* a frame index in 0 .. N-1.
C24_UpdateReadsWithinFrames ==
    [][(/\ mapInstance # Null
        /\ mapInstance[1].trajectories # Null
        /\ Len(mapInstance[1].trajectories[1]) >= 1
        /\ \/ \E id \in 1 .. MaxTimers : Map_tick(id)
           \/ \E i \in 0 .. Len(mapInstance[1].trajectories[1]) : Map_slider(i))
       => LET N == Len(mapInstance[1].trajectories[1])
              m == mapInstance'[1]
          IN  \A p \in 1 .. Len(m.frameLog) :
                  /\ m.frameLog[p] # Null
                  /\ m.frameLog[p][1] \in 0 .. N - 1]_vars

\* C25: once Home has built its lists, the selection is consistent: the
\* selected facility holds the policy polHash, that policy holds the run
\* runId, and selectedRun is the name of that run.
C25_SelectionConsistent ==
    (home.pc = "built" /\ Len(home.facilities) > 0)
    => /\ home.runId # Null
       /\ \E i \in 1 .. Len(home.facilities) :
            /\ home.facilities[i].facilityName = home.selectedFacility
            /\ \E j \in 1 .. Len(home.facilities[i].policies) :
                 LET pol == home.facilities[i].policies[j]
                 IN  /\ pol.policyHash = home.polHash
                     /\ \E r \in 1 .. Len(pol.simulationRuns) :
                          pol.simulationRuns[r] = home.runId[1]
       /\ home.selectedRun = Some(RunName(home.runId[1]))

\* The largest element of a sequence of numbers, 0 for the empty one.
RECURSIVE MaxOf(_)
MaxOf(seq) == IF seq = <<>> THEN 0 ELSE Max(Head(seq), MaxOf(Tail(seq)))

\* C26: when the last trajectory chunk of a load has arrived, the color
\* scale's domain is [0, M] with M the largest max_count of its chunks, the
\* loader is hidden and the animation timer is running.
C26_DomainIsLargestMaxCount ==
    [][\A l \in 1 .. Len(engine.loads) :
         (/\ engine.version = "part_005"
          /\ ~engine.m.destroyed
          /\ Len(engine'.loads) = Len(engine.loads)
          /\ "chunk" \in engine.loads[l].pending
          /\ "chunk" \notin engine'.loads[l].pending)
         => /\ engine'.domain = <<0, MaxOf(engine'.loads[l].max_count)>>
            /\ ~engine'.m.loaderShown
            /\ engine'.m.timers # {}]_vars

\* C29: once destroy() has run, no interval timer of the instance is active
\* and update() does not run, whichever responses arrive afterwards.
C29_DestroyedStaysQuiet ==
    [][engine.m.destroyed
         => /\ engine'.m.timers = {}
            /\ engine'.m.frameLog = <<>>]_vars

\* C27: whenever the store's status is 'mapReady', a base map is stored.
C27_MapReadyHasMap == state.status = "mapReady" => state.mapData # Null

\* The instance is stopped: it has run a timer before, and stopAnimation()
\* was the last call that touched it (animationIntervalID is null again).
Stopped(m) == m.animationIntervalID = Null /\ m.nextTimer > 1 /\ ~m.destroyed

\* C28: while the instance is stopped, no call other than startAnimation()
\* leaves it with an interval timer, so no tick advances the frame index.
C28_StoppedUntilStart ==
    [][(/\ mapInstance # Null
        /\ Stopped(mapInstance[1])
        /\ ~Map_startAnimation)
       => mapInstance'[1].timers = {}]_vars

\* The summary response of dispatch k has been handled and every base map
\* request it issued has been answered.
Processed(k) ==
    /\ k <= Len(calls)
    /\ calls[k].then = "store"
    /\ calls[k].pc = "resolved"
    /\ ~calls[k].threw
    /\ \E j \in 1 .. Len(mapReqs) : mapReqs[j].call = k
    /\ \A j \in 1 .. Len(mapReqs) :
         mapReqs[j].call = k => mapReqs[j].pc = "done"

\* C30: once the summary and base map responses of a fetchSimulationData
\* dispatch have been processed, the promise the dispatch returned is
\* eventually resolved or rejected.
C30_FetchPromiseSettles ==
    \A k \in 1 .. MaxCalls :
        Processed(k) ~> (k <= Len(calls) /\ calls[k].promise # "pending")

====
